---------------------------- MODULE Spec2Model ----------------------------
(***************************************************************************)
(* A model of the class-group VDF core of fastcrypto: the extended         *)
(* Euclidean algorithm and exact_div (fastcrypto-vdf/src/extended_gcd.rs), *)
(* quadratic forms and the NUCOMP doubling                                 *)
(* (fastcrypto/src/groups/class_group/mod.rs), the compressed encoding     *)
(* (fastcrypto/src/groups/classgroup.rs), Wesolowski's VDF                 *)
(* (fastcrypto-vdf/src/vdf/wesolowski.rs) and the comb method of scalar    *)
(* multiplication (fastcrypto/src/groups/multiplier/comb_method.rs).       *)
(*                                                                         *)
(* Each component is a small state machine over its own variables; a       *)
(* specification SpecX runs one component and leaves the others idle.      *)
(***************************************************************************)
EXTENDS Integers, Sequences, FiniteSets, TLC

VARIABLES
    \* extended_euclidean_algorithm
    xa, xb, xpc, xflipped, xr, xs, xt, xout,
    \* exact_div
    ea, eb, echecks, epc, e_a_digits, e_b_digits, e_result_length, e_length,
    e_b_prime, e_q, e_k, eres,
    \* quadratic forms: the discriminant, the form last returned, the
    \* operation that returned it and its operands, and the start and length
    \* of the current run of doublings
    fD, fform, fop, fprev, fother, fscale, fx0, fn,
    \* WesolowskisVDF: group_parameter, iterations, the input, the
    \* position in evaluate, its loop counter and
    \* locals, the arguments and result of the verify call, the multiplier
    \* of the FastVerifier and the result of its verify call
    vD, vT, vinput, vpc, vi, voutput, vproof, vqr, vchallenge,
    varg_output, varg_proof, vresult, vmultiplier, vfast_result,
    \* the compressed encoding: the discriminant, the calls made so far, the
    \* status of the last call, what it returned ("form", "compressed", "bytes" or "nothing"), the last
    \* form, compressed form and payload returned, the form or payload the
    \* chain started from, and what the last deserialize returned
    cD, cops, cstatus, cheld, cform, ccompressed, cbytes, cform0,
    cbytes0, cdeserialized,
    \* Discriminant: the constructor called, its arguments, whether the
    \* build checks for overflow, the number of calls made with the
    \* arguments, what the last call returned and what the call before it
    \* returned
    dcall, dvalue, dseed, dsize_in_bits, dchecks, dcalls, dresult, dprevious,
    \* StrongFiatShamir: the public parameters, as bytes, of the call made by
    \* evaluate and of the call made by verify, and the seed and challenge of
    \* each call
    sevaluate, sverify, spc, sseed_evaluate, sseed_verify,
    schallenge_evaluate, schallenge_verify,
    \* deserialize over discriminants of any size: the payload, the bit
    \* length of the discriminant, and the outcome of the call with the
    \* ranges of the payload it took
    lbytes, lbit_length, llayout,
    \* CombMultiplier: the const parameters, the base element, where the
    \* multiplier is ("new", "built", or the panic of new), its table, and
    \* the scalar and the result of a call of mul
    WIDTH, HEIGHT, SCALAR_SIZE, mbase_element, mpc, mcache, mscalar, mresult,
    \* double, step by step: the discriminant and the form, the position in
    \* double, the locals bx, by, x, y, z of step 3, the number of rounds of
    \* its loop that ran, by and y as the loop left them, the step that built
    \* the form ("step4" or "step5") and the form returned
    nD, nform, npc, nbx, nby, nx, ny, nz, nrounds, nloop_by, nloop_y,
    nbranch, nresult

xvars == <<xa, xb, xpc, xflipped, xr, xs, xt, xout>>
evars == <<ea, eb, echecks, epc, e_a_digits, e_b_digits, e_result_length,
           e_length, e_b_prime, e_q, e_k, eres>>
fvars == <<fD, fform, fop, fprev, fother, fscale, fx0, fn>>
vvars == <<vD, vT, vinput, vpc, vi, voutput, vproof, vqr, vchallenge,
           varg_output, varg_proof, vresult, vmultiplier, vfast_result>>
cvars == <<cD, cops, cstatus, cheld, cform, ccompressed, cbytes,
           cform0, cbytes0, cdeserialized>>
dvars == <<dcall, dvalue, dseed, dsize_in_bits, dchecks, dcalls, dresult,
           dprevious>>
svars == <<sevaluate, sverify, spc, sseed_evaluate, sseed_verify,
           schallenge_evaluate, schallenge_verify>>
lvars == <<lbytes, lbit_length, llayout>>
mvars == <<WIDTH, HEIGHT, SCALAR_SIZE, mbase_element, mpc, mcache, mscalar,
           mresult>>
nvars == <<nD, nform, npc, nbx, nby, nx, ny, nz, nrounds, nloop_by, nloop_y,
           nbranch, nresult>>
vars == <<xvars, evars, fvars, vvars, cvars, dvars, svars, lvars, mvars,
          nvars>>

\* The variables of the components other than the one named.
xrest == <<evars, fvars, vvars, cvars, dvars, svars, lvars, mvars,
          nvars>>
erest == <<xvars, fvars, vvars, cvars, dvars, svars, lvars, mvars,
          nvars>>
frest == <<xvars, evars, vvars, cvars, dvars, svars, lvars, mvars,
          nvars>>
vrest == <<xvars, evars, fvars, cvars, dvars, svars, lvars, mvars,
          nvars>>
crest == <<xvars, evars, fvars, vvars, dvars, svars, lvars, mvars,
          nvars>>
drest == <<xvars, evars, fvars, vvars, cvars, svars, lvars, mvars,
          nvars>>
srest == <<xvars, evars, fvars, vvars, cvars, dvars, lvars, mvars,
          nvars>>
lrest == <<xvars, evars, fvars, vvars, cvars, dvars, svars, mvars,
          nvars>>
mrest == <<xvars, evars, fvars, vvars, cvars, dvars, svars, lvars,
          nvars>>
nrest == <<xvars, evars, fvars, vvars, cvars, dvars, svars, lvars,
          mvars>>

----------------------------------------------------------------------------
(* Integer helpers: num-bigint / curv semantics of the operators used.     *)

Abs(n) == IF n < 0 THEN -n ELSE n

\* F at the value of x, and at the values of x and y: the arguments are
\* computed once, before F is applied.
With(x, F(_)) == CHOOSE result \in {F(value) : value \in {x}} : TRUE

With2(x, y, F(_, _)) ==
    CHOOSE result \in {F(values[1], values[2]) : values \in {<<x, y>>}} : TRUE

\* Sign of a BigInt: Minus, NoSign, Plus
Sgn(n) == IF n < 0 THEN -1 ELSE IF n = 0 THEN 0 ELSE 1

Min(m, n) == IF m <= n THEN m ELSE n

\* BigInt `/` and div_rem: quotient truncated towards zero
TDiv(n, d) == Sgn(n) * Sgn(d) * (Abs(n) \div Abs(d))

TRem(n, d) == n - d * TDiv(n, d)

\* div_floor / mod_floor / modulus
FDiv(n, d) == IF TRem(n, d) # 0 /\ (Sgn(n) * Sgn(d) < 0)
              THEN TDiv(n, d) - 1 ELSE TDiv(n, d)

FMod(n, d) == n - d * FDiv(n, d)

Modulus(n, d) == n - Abs(d) * FDiv(n, Abs(d))

RECURSIVE Pow(_, _)
Pow(b, e) == IF e = 0 THEN 1 ELSE b * Pow(b, e - 1)

Divides(d, n) == IF d = 0 THEN n = 0 ELSE TRem(n, d) = 0

\* The greatest common divisor by its definition (gcd(0, 0) = 0).
GcdRef(m, n) ==
    IF m = 0 /\ n = 0 THEN 0
    ELSE CHOOSE d \in 1..(Abs(m) + Abs(n)) :
            /\ Divides(d, m) /\ Divides(d, n)
            /\ \A e \in 1..(Abs(m) + Abs(n)) :
                   (Divides(e, m) /\ Divides(e, n)) => e <= d

----------------------------------------------------------------------------
(* extended_euclidean_algorithm(a, b)                                      *)

\* Largest magnitude of an operand of the algorithm in the model.
MaxOperand == 6

NoOutput == [gcd |-> 0, x |-> 0, y |-> 0,
             a_divided_by_gcd |-> 0, b_divided_by_gcd |-> 0]

\* flip() that swaps the Bezout coefficients but not the quotients.
flip_coefficients_only(o) == [gcd |-> o.gcd, x |-> o.y, y |-> o.x,
                              a_divided_by_gcd |-> o.a_divided_by_gcd,
                              b_divided_by_gcd |-> o.b_divided_by_gcd]

\* EuclideanAlgorithmOutput::flip
flip(o) == [gcd |-> o.gcd, x |-> o.y, y |-> o.x,
            a_divided_by_gcd |-> o.b_divided_by_gcd,
            b_divided_by_gcd |-> o.a_divided_by_gcd]

\* The operands of the call that runs the loop: (b, a) after the swap.
inner_a == IF xflipped THEN xb ELSE xa
inner_b == IF xflipped THEN xa ELSE xb

\* The swap of the closure f without its subtraction.
cofactor_swap_only(p, q) == <<p[2], p[1]>>

\* The closure f applied to a cofactor pair with quotient q.
cofactor_update(p, q) == <<p[2] - q * p[1], p[1]>>

XInit ==
    /\ xa \in -MaxOperand..MaxOperand
    /\ xb \in -MaxOperand..MaxOperand
    /\ xpc = "entry"
    /\ xflipped = FALSE
    /\ xr = <<0, 0>>
    /\ xs = <<0, 0>>
    /\ xt = <<0, 0>>
    /\ xout = NoOutput

\* Entry: `if b < a { return extended_euclidean_algorithm(b, a).flip() }`,
\* then the initialisation of s, t and r.
xgcd_enter ==
    /\ xpc = "entry"
    /\ xflipped' = (xb < xa)
    /\ xs' = <<0, 1>>
    /\ xt' = <<1, 0>>
    /\ xr' = IF xb < xa THEN <<xb, xa>> ELSE <<xa, xb>>
    /\ xpc' = "loop"
    /\ UNCHANGED <<xa, xb, xout, xrest>>

\* One iteration of `while !r.0.is_zero()`.
xgcd_step ==
    /\ xpc = "loop"
    /\ xr[1] # 0
    /\ LET q == TDiv(xr[2], xr[1])
           r_prime == TRem(xr[2], xr[1])
       IN /\ xr' = <<r_prime, xr[1]>>
          /\ xs' = cofactor_update(xs, q)
          /\ xt' = cofactor_update(xt, q)
    /\ UNCHANGED <<xa, xb, xpc, xflipped, xout, xrest>>

\* The output without the sign normalisation of a negative last remainder.
xgcd_output_unnormalised(a, b, r, s, t) ==
    [gcd |-> r[2], x |-> t[2], y |-> s[2],
     a_divided_by_gcd |-> IF Sgn(a) # Sgn(s[1]) THEN -s[1] ELSE s[1],
     b_divided_by_gcd |-> IF Sgn(b) # Sgn(t[1]) THEN -t[1] ELSE t[1]]

\* The output of the call that ran the loop, on operands (a, b).
xgcd_output(a, b, r, s, t) ==
    LET a_divided_by_gcd == IF Sgn(a) # Sgn(s[1]) THEN -s[1] ELSE s[1]
        b_divided_by_gcd == IF Sgn(b) # Sgn(t[1]) THEN -t[1] ELSE t[1]
    IN IF ~(r[2] < 0)
       THEN [gcd |-> r[2], x |-> t[2], y |-> s[2],
             a_divided_by_gcd |-> a_divided_by_gcd,
             b_divided_by_gcd |-> b_divided_by_gcd]
       ELSE [gcd |-> -r[2], x |-> -t[2], y |-> -s[2],
             a_divided_by_gcd |-> a_divided_by_gcd,
             b_divided_by_gcd |-> b_divided_by_gcd]

\* Loop exit and return (through flip() when the operands were swapped).
xgcd_return ==
    /\ xpc = "loop"
    /\ xr[1] = 0
    /\ LET o == xgcd_output(inner_a, inner_b, xr, xs, xt)
       IN xout' = IF xflipped THEN flip(o) ELSE o
    /\ xpc' = "done"
    /\ UNCHANGED <<xa, xb, xflipped, xr, xs, xt, xrest>>


----------------------------------------------------------------------------
(* exact_div(a, b)                                                         *)

\* Width of a limb in bits (the u32 digits of the source, scaled down).
LimbBits == 2

Base == Pow(2, LimbBits)

\* Largest divisor and largest quotient of an exact division in the model.
MaxDivisor == 9
MaxQuotient == 9

\* BigUint::to_u32_digits: least significant limb first, empty for zero.
RECURSIVE to_digits(_)
to_digits(n) == IF n = 0 THEN <<>> ELSE <<n % Base>> \o to_digits(n \div Base)

\* BigUint::from_slice
RECURSIVE from_slice(_)
from_slice(d) == IF d = <<>> THEN 0 ELSE d[1] + Base * from_slice(Tail(d))

\* u32::trailing_zeros of one limb (the limb width for a zero limb).
RECURSIVE trailing_zeros(_)
trailing_zeros(limb) ==
    IF limb = 0 THEN LimbBits
    ELSE IF limb % 2 = 1 THEN 0 ELSE 1 + trailing_zeros(limb \div 2)

\* Shr
shr(n, bits) == n \div Pow(2, bits)

\* invm: the inverse modulo the limb base, or -1 for None.
invm(limb) ==
    IF \E i \in 0..(Base - 1) : (limb * i) % Base = 1
    THEN CHOOSE i \in 0..(Base - 1) : (limb * i) % Base = 1
    ELSE -1

\* a_digits[from..to] with 0-based, end-exclusive bounds.
slice(d, from, to) == SubSeq(d, from + 1, to)

EInit ==
    /\ eb \in 1..MaxDivisor
    /\ \E m \in 0..MaxQuotient : ea = eb * m
    /\ echecks \in BOOLEAN
    /\ epc = "entry"
    /\ e_a_digits = <<>>
    /\ e_b_digits = <<>>
    /\ e_result_length = 0
    /\ e_length = 0
    /\ e_b_prime = 0
    /\ e_q = <<>>
    /\ e_k = 0
    /\ eres = -1

\* Lines 98-106: the shift by the divisor's trailing zeros, the lengths and
\* the inverse of the divisor's lowest limb.  `a_digits.len() - b_digits.len()`
\* is a usize subtraction: it panics where overflow checks are on and wraps
\* where they are off, so that result_length is 0 when the difference is -1
\* and exceeds every index otherwise (written here as the unwrapped negative).
exact_div_setup ==
    /\ epc = "entry"
    /\ LET tz == trailing_zeros(to_digits(eb)[1])
           a_digits == to_digits(shr(ea, tz))
           b_digits == to_digits(shr(eb, tz))
           diff == Len(a_digits) - Len(b_digits)
           result_length == diff + 1
           b_prime == invm(b_digits[1])
       IN IF diff < 0 /\ echecks
          THEN /\ epc' = "panic_length_underflow"
               /\ UNCHANGED <<e_a_digits, e_b_digits, e_result_length,
                              e_length, e_b_prime>>
          ELSE /\ e_a_digits' = a_digits
               /\ e_b_digits' = b_digits
               /\ e_result_length' = result_length
               /\ e_length' = IF result_length < 0 THEN Len(b_digits)
                              ELSE Min(Len(b_digits), result_length)
               /\ e_b_prime' = b_prime
               /\ epc' = IF b_prime = -1 THEN "panic_no_inverse" ELSE "loop"
    /\ UNCHANGED <<ea, eb, echecks, e_q, e_k, eres, erest>>

\* One iteration of `for k in 0..result_length`.
exact_div_step ==
    /\ epc = "loop"
    /\ e_result_length < 0 \/ e_k < e_result_length
    /\ IF e_k >= Len(e_a_digits)
       THEN \* a_digits[k] is out of bounds
            /\ epc' = "panic_index"
            /\ UNCHANGED <<e_a_digits, e_q, e_k>>
       ELSE LET qk == (e_a_digits[e_k + 1] * e_b_prime) % Base
            IN IF e_result_length >= 0 /\ ~(e_k + 1 < e_result_length)
               THEN /\ e_q' = Append(e_q, qk)
                    /\ e_k' = e_k + 1
                    /\ UNCHANGED <<e_a_digits, epc>>
               ELSE IF e_result_length < 0 \/ e_result_length > Len(e_a_digits)
               THEN \* the slice a_digits[k..result_length] is out of bounds
                    /\ epc' = "panic_index"
                    /\ UNCHANGED <<e_a_digits, e_q, e_k>>
               ELSE LET j == Min(e_length, e_result_length - e_k)
                        minuend == from_slice(slice(e_a_digits, e_k, e_result_length))
                        subtrahend == from_slice(slice(e_b_digits, 0, j)) * qk
                        a_new_digits == to_digits(minuend - subtrahend)
                    IN IF minuend < subtrahend
                       THEN \* BigUint subtraction underflow
                            /\ epc' = "panic_sub_underflow"
                            /\ UNCHANGED <<e_a_digits, e_q, e_k>>
                       ELSE /\ e_a_digits' =
                                 [i \in 1..Len(e_a_digits) |->
                                    IF i <= e_k \/ i > e_result_length
                                    THEN e_a_digits[i]
                                    ELSE IF i - e_k <= Len(a_new_digits)
                                         THEN a_new_digits[i - e_k]
                                         ELSE 0]
                            /\ e_q' = Append(e_q, qk)
                            /\ e_k' = e_k + 1
                            /\ UNCHANGED epc
    /\ UNCHANGED <<ea, eb, echecks, e_b_digits, e_result_length, e_length,
                   e_b_prime, eres, erest>>

\* Line 119: the quotient is rebuilt from its limbs.
exact_div_return ==
    /\ epc = "loop"
    /\ e_result_length >= 0 /\ e_k >= e_result_length
    /\ eres' = from_slice(e_q)
    /\ epc' = "done"
    /\ UNCHANGED <<ea, eb, echecks, e_a_digits, e_b_digits, e_result_length,
                   e_length, e_b_prime, e_q, e_k, erest>>


----------------------------------------------------------------------------
(* Quadratic forms: class_group/mod.rs over the BinaryQF of the class_group *)
(* crate (compose, reduce and exp are that crate's, modelled by what they   *)
(* compute).                                                                *)

\* Largest |discriminant| and largest coefficients handed to the constructor.
MaxDiscriminant == 47
MaxCoefficient == 4

\* Rounds of rho() after which reduce() is taken not to return.
ReduceFuel == 12

\* Largest scalar of a mul and longest run of doublings followed.
MaxScalar == 3
MaxDoublings == 2

\* MAX_DISCRIMINANT_SIZE_IN_BITS, scaled to the model's integers.
MAX_DISCRIMINANT_SIZE_IN_BITS == 16

RECURSIVE bit_length(_)
bit_length(n) == IF n = 0 THEN 0 ELSE 1 + bit_length(Abs(n) \div 2)

\* A FastCryptoResult<Discriminant>, or the panic that took its place; an
\* InputTooLong carries the bit length.
DiscriminantResult(status, value) == [status |-> status, value |-> value]

NoDiscriminant == DiscriminantResult("none", 0)

\* Discriminant::try_from with the size checked before sign and residue.
try_from_size_first(value) ==
    IF bit_length(value) > MAX_DISCRIMINANT_SIZE_IN_BITS
    THEN DiscriminantResult("InputTooLong", bit_length(value))
    ELSE IF value >= 0 \/ Modulus(value, 4) # 1
    THEN DiscriminantResult("InvalidInput", 0)
    ELSE DiscriminantResult("Ok", value)

\* Discriminant::try_from
try_from(value) ==
    IF value >= 0 \/ Modulus(value, 4) # 1
    THEN DiscriminantResult("InvalidInput", 0)
    ELSE IF bit_length(value) > MAX_DISCRIMINANT_SIZE_IN_BITS
    THEN DiscriminantResult("InputTooLong", bit_length(value))
    ELSE DiscriminantResult("Ok", value)

\* The kind of result of Discriminant::try_from: "Ok", "InvalidInput" or
\* "InputTooLong"
discriminant_try_from(value) == try_from(value).status

\* The discriminants the model draws from: those try_from accepts.
Discriminants ==
    {d \in -MaxDiscriminant..-1 : discriminant_try_from(d) = "Ok"}

\* Roots::sqrt: the integer square root
ISqrt(n) ==
    CHOOSE r \in 0..Pow(2, (bit_length(n) + 1) \div 2) :
        r * r <= n /\ (r + 1) * (r + 1) > n

partial_gcd_limit(discriminant) == ISqrt(ISqrt(Abs(discriminant)))

\* BinaryQF { a, b, c }
Form(a, b, c) == [a |-> a, b |-> b, c |-> c]

\* Stands for "no form is returned": a panic or a loop that does not end.
NoForm == Form(0, 0, 0)

\* BinaryQF::discriminant
form_discriminant(f) == f.b * f.b - 4 * f.a * f.c

\* BigInt::extended_gcd(a, b): gcd and Bezout coefficients, a*x + b*y = gcd
RECURSIVE extended_gcd(_, _)
extended_gcd(a, b) ==
    IF b = 0 THEN [gcd |-> Abs(a), x |-> IF a < 0 THEN -1 ELSE 1, y |-> 0]
    ELSE LET rec == extended_gcd(b, FMod(a, b))
         IN [gcd |-> rec.gcd, x |-> rec.y, y |-> rec.x - FDiv(a, b) * rec.y]

\* BinaryQF::is_normal, normalize, rho, is_reduced and reduce
is_normal(f) == f.b <= f.a /\ f.b > -f.a

is_reduced(f) == is_normal(f) /\ f.a <= f.c /\ ~(f.a = f.c /\ f.b < 0)

normalize(f) ==
    LET s == FDiv(f.a - f.b, 2 * f.a)
    IN Form(f.a, f.b + 2 * s * f.a, f.a * s * s + f.b * s + f.c)

rho(f) == normalize(Form(f.c, -f.b, f.a))

RECURSIVE reduce_loop(_, _)
reduce_loop(f, fuel) ==
    IF is_reduced(f) THEN f
    ELSE IF fuel = 0 \/ f.c = 0 THEN NoForm
    ELSE reduce_loop(rho(f), fuel - 1)

reduce(f) ==
    IF f.a = 0 THEN NoForm
    ELSE reduce_loop(IF is_normal(f) THEN f ELSE normalize(f), ReduceFuel)

\* BinaryQF::compose: the composition of two forms of one discriminant
\* (Cohen, A Course in Computational Algebraic Number Theory, 5.4.7).
compose(f, h) ==
    IF f = NoForm \/ h = NoForm \/ f.a <= 0 \/ h.a <= 0
       \/ form_discriminant(f) # form_discriminant(h)
    THEN NoForm
    ELSE LET f1 == IF f.a > h.a THEN h ELSE f
             f2 == IF f.a > h.a THEN f ELSE h
             s == (f1.b + f2.b) \div 2
             n == f2.b - s
             e1 == extended_gcd(f2.a, f1.a)
             y1 == IF Divides(f1.a, f2.a) THEN 0 ELSE e1.x
             d == IF Divides(f1.a, f2.a) THEN f1.a ELSE e1.gcd
             e2 == extended_gcd(s, d)
             x2 == IF Divides(d, s) THEN 0 ELSE e2.x
             y2 == IF Divides(d, s) THEN -1 ELSE -e2.y
             d1 == IF Divides(d, s) THEN d ELSE e2.gcd
             v1 == f1.a \div d1
             v2 == f2.a \div d1
             r == Modulus(y1 * y2 * n - x2 * f2.c, v1)
         IN Form(v1 * v2, f2.b + 2 * v2 * r,
                 (f2.c * d1 + r * (f2.b + v2 * r)) \div v1)

\* From here on: class_group/mod.rs

\* QuadraticForm::from_a_b_discriminant (a division by zero when a = 0)
from_a_b_discriminant(a, b, discriminant) ==
    IF a = 0 THEN NoForm
    ELSE Form(a, b, TDiv(b * b - discriminant, 4 * a))

generator(discriminant) == from_a_b_discriminant(2, 1, discriminant)

\* QuadraticForm::discriminant: the discriminant of the form, or the panic
\* of `expect` when try_from rejects it
quadratic_form_discriminant(f) ==
    IF try_from(form_discriminant(f)).status = "Ok"
    THEN try_from(form_discriminant(f))
    ELSE DiscriminantResult("panic", 0)

zero(discriminant) == from_a_b_discriminant(1, 1, discriminant)

\* BinaryQF::exp: the reduced n-th multiple (the unit form for n = 0)
RECURSIVE exp(_, _)
exp(f, n) ==
    IF f = NoForm THEN NoForm
    ELSE IF n = 0 THEN reduce(zero(form_discriminant(f)))
    ELSE With(exp(f, n - 1),
              LAMBDA previous : With(compose(previous, f), reduce))

\* impl Add for QuadraticForm
add(f, h) == With(compose(f, h), reduce)

\* QuadraticForm::mul
mul(f, scale) == exp(f, scale)

\* Step 3 of double: the partial extended Euclidean loop.
RECURSIVE partial_xgcd_loop(_, _, _, _, _, _)
partial_xgcd_loop(bx, by, x, y, z, limit) ==
    IF Abs(by) > limit /\ bx # 0
    THEN LET q == TDiv(by, bx)
             t == TRem(by, bx)
         IN partial_xgcd_loop(t, bx, y - q * x, x, z + 1, limit)
    ELSE [bx |-> bx, by |-> by, x |-> x, y |-> y, z |-> z]

\* Step 1 of double: (capital_by, capital_dy) from u, v and g = gcd(u, v).
double_scaling(u, v, g) ==
    IF g = 1 THEN <<TDiv(u, g), TDiv(v, g)>> ELSE <<u, v>>

\* Steps 4 and 5 of double: (dx, dy, v3) for z > 0.
double_step5(bx, x, y, w, g, capital_by, capital_dy, v3) ==
    LET dx == TDiv(bx * capital_dy - w * x, capital_by)
        q1 == dx * y
        dy == TDiv(q1 + capital_dy, x)
    IN [dx |-> dx, dy |-> dy, v3 |-> v3 + g * (dy + q1)]

\* QuadraticForm::double up to the final reduce(): every intermediate value
\* of the form (u, v, w) with the given partial_gcd_limit.
double_values(f, limit) ==
    LET u == f.a
        v == f.b
        w == f.c
        xgcd == extended_gcd(u, v)
        g == xgcd.gcd
        scaled == double_scaling(u, v, g)
        capital_by == scaled[1]
        capital_dy == scaled[2]
        capital_bx == Modulus(w * xgcd.y, capital_by)
        p == partial_xgcd_loop(capital_bx, capital_by, 1, 0, 0, limit)
        z == p.z
        bx == p.bx
        by == IF z % 2 = 1 THEN -p.by ELSE p.by
        y == IF z % 2 = 1 THEN -p.y ELSE p.y
        x == p.x
        u3 == by * by
        w3 == bx * bx
        v3 == -(2 * (bx * by))
        dx0 == TDiv(bx * capital_dy - w, capital_by)
        s5 == double_step5(bx, x, y, w, g, capital_by, capital_dy, v3)
        gx == IF g # 1 THEN x * g ELSE x
        gy == IF g # 1 THEN y * g ELSE y
    IN [g |-> g, capital_by |-> capital_by, capital_dy |-> capital_dy,
        capital_bx |-> capital_bx, z |-> z, bx |-> bx, by |-> by,
        x |-> x, y |-> y, loop_by |-> p.by,
        form |-> IF z = 0
                 THEN Form(u3, v3 + v,
                           w3 - (IF g # 1 THEN dx0 * g ELSE dx0))
                 ELSE Form(u3 - gy * s5.dy, s5.v3, w3 - gx * s5.dx)]

\* QuadraticForm::double without the final reduce().
double_unreduced(f, limit) ==
    IF f = NoForm \/ f.a = 0 THEN NoForm
    ELSE double_values(f, limit).form

\* QuadraticForm::double
double(f, limit) ==
    IF f = NoForm \/ f.a = 0 THEN NoForm
    ELSE With(double_values(f, limit).form, reduce)

\* The forms of the discriminant a caller can hand to add().
FormsOf(discriminant) ==
    {h \in {from_a_b_discriminant(a, b, discriminant) :
              a \in 1..MaxCoefficient, b \in -MaxCoefficient..MaxCoefficient} :
        form_discriminant(h) = discriminant}

FInit ==
    /\ fD \in Discriminants
    /\ fform = zero(fD)
    /\ fop = "zero"
    /\ fprev = NoForm
    /\ fother = NoForm
    /\ fscale = 0
    /\ fx0 = fform
    /\ fn = 0

\* A constructor call: a new run of doublings starts from the form it returns.
form_from_a_b_discriminant ==
    /\ \E a \in 1..MaxCoefficient, b \in -MaxCoefficient..MaxCoefficient :
        /\ fform' = from_a_b_discriminant(a, b, fD)
        /\ fx0' = from_a_b_discriminant(a, b, fD)
    /\ fop' = "from_a_b_discriminant"
    /\ fprev' = NoForm
    /\ fother' = NoForm
    /\ fscale' = 0
    /\ fn' = 0
    /\ UNCHANGED <<fD, frest>>

form_generator ==
    /\ fform' = generator(fD)
    /\ fx0' = generator(fD)
    /\ fop' = "generator"
    /\ fprev' = NoForm
    /\ fother' = NoForm
    /\ fscale' = 0
    /\ fn' = 0
    /\ UNCHANGED <<fD, frest>>

form_zero ==
    /\ fform' = zero(fD)
    /\ fx0' = zero(fD)
    /\ fop' = "zero"
    /\ fprev' = NoForm
    /\ fother' = NoForm
    /\ fscale' = 0
    /\ fn' = 0
    /\ UNCHANGED <<fD, frest>>

form_double ==
    /\ fform # NoForm
    /\ fn < MaxDoublings
    /\ fform' = double(fform, partial_gcd_limit(fD))
    /\ fop' = "double"
    /\ fprev' = fform
    /\ fother' = NoForm
    /\ fscale' = 0
    /\ fn' = fn + 1
    /\ UNCHANGED <<fD, fx0, frest>>

form_add ==
    /\ fform # NoForm
    /\ form_discriminant(fform) = fD
    /\ \E h \in FormsOf(fD) :
        /\ fform' = add(fform, h)
        /\ fother' = h
        /\ fx0' = add(fform, h)
    /\ fop' = "add"
    /\ fprev' = fform
    /\ fscale' = 0
    /\ fn' = 0
    /\ UNCHANGED <<fD, frest>>

form_mul ==
    /\ fform # NoForm
    /\ form_discriminant(fform) = fD
    /\ \E scale \in 0..MaxScalar :
        /\ fform' = mul(fform, scale)
        /\ fscale' = scale
        /\ fx0' = mul(fform, scale)
    /\ fop' = "mul"
    /\ fprev' = fform
    /\ fother' = NoForm
    /\ fn' = 0
    /\ UNCHANGED <<fD, frest>>

----------------------------------------------------------------------------
(* Wesolowski's VDF (vdf/wesolowski.rs) over the quadratic forms above.     *)

\* Largest number of iterations of a VDF.
MaxIterations == 4

\* CHALLENGE_SIZE, here in bits and scaled to the model's groups.
CHALLENGE_SIZE == 3

\* The elements of the class group: the reduced primitive forms.
Elements(discriminant) ==
    {h \in FormsOf(discriminant) :
        /\ is_reduced(h)
        /\ \A p \in 2..MaxCoefficient :
              ~(Divides(p, h.a) /\ Divides(p, h.b) /\ Divides(p, h.c))}

\* ToBytes of a form and of a discriminant: one injective encoding each.
form_to_bytes(f) == <<f.a, f.b, f.c>>

discriminant_to_bytes(discriminant) == <<discriminant>>

\* The hash of a seed, taken as an integer (the membership test has TLC
\* compute each round's value before the next round).
RECURSIVE digest(_, _)
digest(seed, acc) ==
    IF seed = <<>> THEN acc
    ELSE LET mixed == Modulus(acc * 5 + Head(seed) + 3, 64)
         IN IF mixed \in 0..63 THEN digest(Tail(seed), mixed) ELSE mixed

\* The primality check: trial division up to the square root.
is_prime(n) == n >= 2 /\ \A d \in 2..ISqrt(n) : n % d # 0

\* Candidates tried by a prime search before it gives up.
MaxPrimeSearch == 2

set_bit(n, i) == IF (n \div Pow(2, i)) % 2 = 1 THEN n ELSE n + Pow(2, i)

RECURSIVE set_bits(_, _)
set_bits(n, bits) ==
    IF bits = <<>> THEN n ELSE set_bits(set_bit(n, Head(bits)), Tail(bits))

\* The search of hash_prime: the candidate if it is prime, else the next
\* value of the same size with the given bits set (the values of a size taken
\* cyclically), and 0 when the tries are used up (a panic).
RECURSIVE prime_search(_, _, _, _)
prime_search(candidate, size_in_bits, bits, tries) ==
    IF tries = 0 THEN 0
    ELSE IF is_prime(candidate) THEN candidate
    ELSE prime_search(
             set_bits((candidate + 1) % Pow(2, size_in_bits), bits),
             size_in_bits, bits, tries - 1)

\* hash_prime: the first prime from the hash of the seed, cut to size_in_bits
\* bits, with the given bits set; 0 when the search is exhausted.
hash_prime(seed, size_in_bits, bits) ==
    prime_search(set_bits(digest(seed, 0) % Pow(2, size_in_bits), bits),
                 size_in_bits, bits, MaxPrimeSearch)

\* u64::to_be_bytes: the 8 bytes of n, the highest first
RECURSIVE be_bytes(_, _)
be_bytes(n, count) ==
    IF count = 0 THEN <<>>
    ELSE Append(be_bytes(n \div 256, count - 1), n % 256)

to_be_bytes(n) == be_bytes(n, 8)

\* The seed of compute_challenge without the two lengths.
challenge_seed_without_lengths(input, output, iterations, parameter) ==
    input \o output \o to_be_bytes(iterations) \o parameter

\* The seed that compute_challenge hashes
challenge_seed(input_bytes, output_bytes, iterations, parameter_bytes) ==
    to_be_bytes(Len(input_bytes)) \o input_bytes
        \o to_be_bytes(Len(output_bytes)) \o output_bytes
        \o to_be_bytes(iterations) \o parameter_bytes

\* The challenge from the seed
challenge_from_seed(seed) ==
    hash_prime(seed, CHALLENGE_SIZE, <<0, CHALLENGE_SIZE - 1>>)

\* StrongFiatShamir::compute_challenge
compute_challenge(iterations, group_parameter, input, output) ==
    challenge_from_seed(
        challenge_seed(form_to_bytes(input), form_to_bytes(output),
                       iterations, discriminant_to_bytes(group_parameter)))

\* Integer::div_mod_floor
div_mod_floor(n, d) == <<FDiv(n, d), FMod(n, d)>>

\* BigInt::modpow by squaring, without the reduction of each product.
RECURSIVE modpow_unreduced(_, _, _)
modpow_unreduced(base, exponent, modulus) ==
    IF exponent = 0 THEN 1
    ELSE LET half == modpow_unreduced(base, exponent \div 2, modulus)
         IN half * half * (IF exponent % 2 = 1 THEN base ELSE 1)

\* BigInt::modpow by squaring.
RECURSIVE modpow(_, _, _)
modpow(base, exponent, modulus) ==
    IF exponent = 0 THEN 1 % modulus
    ELSE LET half == modpow(base, exponent \div 2, modulus)
         IN (half * half * (IF exponent % 2 = 1 THEN base ELSE 1)) % modulus

\* same_group: both forms have the same discriminant.
same_group(f, h) == form_discriminant(f) = form_discriminant(h)

\* verify with the input left out of the equation.
verify_without_input(iterations, group_parameter, input, output, proof) ==
    IF ~same_group(input, output) \/ ~same_group(input, proof)
    THEN "InvalidInput"
    ELSE LET challenge ==
                 compute_challenge(iterations, group_parameter, input, output)
             f1 == mul(proof, challenge)
         IN IF f1 = NoForm THEN "panic"
            ELSE IF f1 # output THEN "InvalidProof"
            ELSE "Ok"

\* verify with the group equation evaluated before the groups are compared.
verify_equation_first(iterations, group_parameter, input, output, proof) ==
    LET challenge ==
            compute_challenge(iterations, group_parameter, input, output)
        f1 == mul(proof, challenge)
        r == modpow(2, iterations, challenge)
        f2 == mul(input, r)
    IN IF f1 = NoForm \/ f2 = NoForm \/ add(f1, f2) = NoForm THEN "panic"
       ELSE IF ~same_group(input, output) \/ ~same_group(input, proof)
       THEN "InvalidInput"
       ELSE IF add(f1, f2) # output THEN "InvalidProof"
       ELSE "Ok"

\* WesolowskisVDF::verify: "Ok", "InvalidInput", "InvalidProof", or "panic"
\* when a group operation does not return.
verify(iterations, group_parameter, input, output, proof) ==
    IF ~same_group(input, output) \/ ~same_group(input, proof)
    THEN "InvalidInput"
    ELSE LET check(sum) ==
                 IF sum = NoForm THEN "panic"
                 ELSE IF sum # output THEN "InvalidProof"
                 ELSE "Ok"
             equation(f1, f2) ==
                 IF f1 = NoForm \/ f2 = NoForm THEN "panic"
                 ELSE With(add(f1, f2), check)
             sides(challenge, r) ==
                 With2(mul(proof, challenge), mul(input, r), equation)
             with_challenge(challenge) ==
                 With2(challenge, modpow(2, iterations, challenge), sides)
         IN With(compute_challenge(iterations, group_parameter, input,
                                   output), with_challenge)

\* The scalar multiplier of a FastVerifier: the base element and the zero
\* it was built from.
Multiplier(base_element, zero_element) ==
    [base_element |-> base_element, zero_element |-> zero_element]

NoMultiplier == Multiplier(NoForm, NoForm)

\* ScalarMultiplier::two_scalar_mul:
\* base_scalar * base_element + other_scalar * other_element
two_scalar_mul(multiplier, base_scalar, other_element, other_scalar) ==
    LET sum(base_multiple, other_multiple) ==
            IF base_multiple = NoForm \/ other_multiple = NoForm THEN NoForm
            ELSE add(base_multiple, other_multiple)
    IN With2(mul(multiplier.base_element, base_scalar),
             mul(other_element, other_scalar), sum)

\* FastVerifier::verify with the proof alone checked against the group.
fast_verify_proof_group_only(iterations, d, input, multiplier, output, proof) ==
    IF ~same_group(input, proof)
    THEN "InvalidInput"
    ELSE LET challenge ==
                 compute_challenge(iterations, d, input, output)
             r == modpow(2, iterations, challenge)
             actual == two_scalar_mul(multiplier, r, proof, challenge)
         IN IF actual = NoForm THEN "panic"
            ELSE IF actual # output THEN "InvalidProof"
            ELSE "Ok"

\* FastVerifier::verify: "Ok", "InvalidInput", "InvalidProof", or "panic"
\* when a group operation does not return.
fast_verify(iterations, group_parameter, input, multiplier, output, proof) ==
    IF ~same_group(input, output) \/ ~same_group(input, proof)
    THEN "InvalidInput"
    ELSE LET check(actual) ==
                 IF actual = NoForm THEN "panic"
                 ELSE IF actual # output THEN "InvalidProof"
                 ELSE "Ok"
             equation(challenge, r) ==
                 With(two_scalar_mul(multiplier, r, proof, challenge), check)
             with_challenge(challenge) ==
                 With2(challenge, modpow(2, iterations, challenge), equation)
         IN With(compute_challenge(iterations, group_parameter, input,
                                   output), with_challenge)

\* No call of compute_challenge.
NoParameters ==
    [input_bytes |-> <<>>, output_bytes |-> <<>>, iterations |-> 0,
     group_parameter_bytes |-> <<>>]

VInit ==
    /\ vD \in Discriminants
    /\ vT \in 0..MaxIterations
    /\ vinput \in Elements(vD)
    /\ vpc = "evaluate"
    /\ vi = 0
    /\ voutput = NoForm
    /\ vproof = NoForm
    /\ vqr = <<0, 0>>
    /\ vchallenge = 0
    /\ varg_output = NoForm
    /\ varg_proof = NoForm
    /\ vresult = "none"
    /\ vmultiplier = NoMultiplier
    /\ vfast_result = "none"

\* An input that is not in the group of the group parameter: the generator
\* of another discriminant.
ForeignInputs(group_parameter) ==
    {generator(IF group_parameter = -23 THEN -15 ELSE -23)}

\* A VDF and an input for it that a caller can pass: an element of the
\* group of group_parameter or a form of another group.
VInitAnyInput ==
    /\ vD \in Discriminants
    /\ vT \in 0..MaxIterations
    /\ vinput \in Elements(vD) \cup ForeignInputs(vD)
    /\ vpc = "evaluate"
    /\ vi = 0
    /\ voutput = NoForm
    /\ vproof = NoForm
    /\ vqr = <<0, 0>>
    /\ vchallenge = 0
    /\ varg_output = NoForm
    /\ varg_proof = NoForm
    /\ vresult = "none"
    /\ vmultiplier = NoMultiplier
    /\ vfast_result = "none"

\* evaluate, up to the first loop: the shortcut for no iterations.
vdf_evaluate_enter ==
    /\ vpc = "evaluate"
    /\ IF vT = 0
       THEN /\ voutput' = vinput
            /\ vproof' = zero(vD)
            /\ vpc' = "returned"
       ELSE /\ voutput' = vinput
            /\ vproof' = NoForm
            /\ vpc' = "doubling"
    /\ vi' = 0
    /\ UNCHANGED <<vD, vT, vinput, vqr, vchallenge, varg_output,
                   varg_proof, vresult, vmultiplier,
                   vfast_result, vrest>>

\* One round of `for _ in 0..self.iterations { output = output.double() }`
vdf_evaluate_double ==
    /\ vpc = "doubling"
    /\ vi < vT
    /\ \E doubled \in {double(voutput, partial_gcd_limit(vD))} :
          /\ voutput' = doubled
          /\ vpc' = IF doubled = NoForm THEN "panic" ELSE "doubling"
    /\ vi' = vi + 1
    /\ UNCHANGED <<vD, vT, vinput, vproof, vqr, vchallenge,
                   varg_output, varg_proof, vresult, vmultiplier,
                   vfast_result, vrest>>

\* The challenge, the first quotient and the first value of the proof.
vdf_evaluate_challenge ==
    /\ vpc = "doubling"
    /\ vi = vT
    /\ \E challenge \in {compute_challenge(vT, vD, vinput, voutput)} :
       \E quotient_remainder \in {div_mod_floor(2, challenge)} :
          /\ vchallenge' = challenge
          /\ vqr' = quotient_remainder
          /\ vproof' = mul(vinput, quotient_remainder[1])
    /\ vi' = 1
    /\ vpc' = "proving"
    /\ UNCHANGED <<vD, vT, vinput, voutput, varg_output, varg_proof,
                   vresult, vmultiplier,
                   vfast_result, vrest>>

\* One round of `for _ in 1..self.iterations`
vdf_evaluate_prove ==
    /\ vpc = "proving"
    /\ vi < vT
    /\ \E quotient_remainder \in {div_mod_floor(vqr[2] * 2, vchallenge)} :
       \E proof \in {With2(double(vproof, partial_gcd_limit(vD)),
                           mul(vinput, quotient_remainder[1]), add)} :
          /\ vqr' = quotient_remainder
          /\ vproof' = proof
          /\ vpc' = IF proof = NoForm THEN "panic" ELSE "proving"
    /\ vi' = vi + 1
    /\ UNCHANGED <<vD, vT, vinput, voutput, vchallenge, varg_output,
                   varg_proof, vresult, vmultiplier,
                   vfast_result, vrest>>

\* Ok((output, proof))
vdf_evaluate_return ==
    /\ vpc = "proving"
    /\ vi = vT
    /\ vpc' = "returned"
    /\ UNCHANGED <<vD, vT, vinput, vi, voutput, vproof, vqr,
                   vchallenge, varg_output, varg_proof, vresult, vmultiplier,
                   vfast_result, vrest>>

\* The forms a caller can hand to verify besides those evaluate returned:
\* the elements of the group, a form of the group that is not reduced, and a
\* form of another group.
Candidates(discriminant) ==
    Elements(discriminant)
        \cup {from_a_b_discriminant(1, -1, discriminant)}
        \cup (IF discriminant = -7 THEN {zero(-3)} ELSE {zero(-7)})

\* A call of verify for the input: with what evaluate returned, or with any
\* other form in the place of the output or of the proof.
vdf_verify ==
    /\ vpc = "returned"
    /\ \E output \in {voutput} \cup Candidates(vD),
          proof \in {vproof} \cup Candidates(vD) :
        /\ varg_output' = output
        /\ varg_proof' = proof
        /\ vresult' = verify(vT, vD, vinput, output, proof)
    /\ vpc' = "verified"
    /\ UNCHANGED <<vD, vT, vinput, vi, voutput, vproof, vqr,
                   vchallenge, vmultiplier,
                   vfast_result, vrest>>

\* FastVerifier::new for the VDF and the input
fast_verifier_new ==
    /\ vpc \in {"returned", "verified"}
    /\ vmultiplier = NoMultiplier
    /\ vmultiplier' = Multiplier(vinput, zero(vD))
    /\ UNCHANGED <<vD, vT, vinput, vpc, vi, voutput, vproof, vqr,
                   vchallenge, varg_output, varg_proof, vresult,
                   vfast_result, vrest>>

\* A call of FastVerifier::verify with the output and proof that verify was
\* called with.
fast_verifier_verify ==
    /\ vpc = "verified"
    /\ vmultiplier # NoMultiplier
    /\ vfast_result = "none"
    /\ vfast_result' = fast_verify(vT, vD, vinput, vmultiplier,
                                   varg_output, varg_proof)
    /\ UNCHANGED <<vD, vT, vinput, vpc, vi, voutput, vproof, vqr,
                   vchallenge, varg_output, varg_proof, vresult,
                   vmultiplier, vrest>>

----------------------------------------------------------------------------
(* The Fiat-Shamir seed of StrongFiatShamir::compute_challenge              *)
(* (vdf/wesolowski.rs), over the bytes of the public parameters.            *)

\* Longest input, output and group parameter, in bytes.
MaxFieldLength == 1

\* The byte strings of input and output (the lowest and the highest byte),
\* the group parameters and the iteration counts of the calls.
FieldBytes == UNION {[1..n -> {0, 255}] : n \in 0..MaxFieldLength}

ParameterBytes == {<<>>, <<1>>}

IterationCounts == {0, 1, 256}

PublicParameters ==
    [input_bytes : FieldBytes, output_bytes : FieldBytes,
     iterations : IterationCounts, group_parameter_bytes : ParameterBytes]

SInit ==
    /\ sevaluate \in PublicParameters
    /\ sverify \in PublicParameters
    /\ spc = "evaluate"
    /\ sseed_evaluate = <<>>
    /\ sseed_verify = <<>>
    /\ schallenge_evaluate = 0
    /\ schallenge_verify = 0

\* compute_challenge as called by evaluate
challenge_in_evaluate ==
    /\ spc = "evaluate"
    /\ LET seed == challenge_seed(sevaluate.input_bytes,
                                  sevaluate.output_bytes,
                                  sevaluate.iterations,
                                  sevaluate.group_parameter_bytes)
       IN /\ sseed_evaluate' = seed
          /\ schallenge_evaluate' = challenge_from_seed(seed)
    /\ spc' = "verify"
    /\ UNCHANGED <<sevaluate, sverify, sseed_verify, schallenge_verify,
                   srest>>

\* compute_challenge as called by verify
challenge_in_verify ==
    /\ spc = "verify"
    /\ LET seed == challenge_seed(sverify.input_bytes,
                                  sverify.output_bytes,
                                  sverify.iterations,
                                  sverify.group_parameter_bytes)
       IN /\ sseed_verify' = seed
          /\ schallenge_verify' = challenge_from_seed(seed)
    /\ spc' = "done"
    /\ UNCHANGED <<sevaluate, sverify, sseed_evaluate, schallenge_evaluate,
                   srest>>

----------------------------------------------------------------------------
(* Discriminants: Discriminant::try_from (class_group/mod.rs) and           *)
(* Discriminant::from_seed (vdf/wesolowski.rs).                             *)

\* try_from is handed the values within MaxValueOffset of 0 and of
\* +-2^MAX_DISCRIMINANT_SIZE_IN_BITS.
MaxValueOffset == 40

\* Largest size_in_bits handed to from_seed, and the seeds: at most
\* MaxSeedLength bytes, each at most MaxSeedByte.
MaxSizeInBits == 25
MaxSeedLength == 2
MaxSeedByte == 3

\* Discriminant::from_seed without the check of size_in_bits.
from_seed_unchecked_size(seed, size_in_bits, checks) ==
    IF size_in_bits = 0
    THEN DiscriminantResult(
             IF checks THEN "panic_overflow" ELSE "panic_prime_search", 0)
    ELSE LET prime == hash_prime(seed, 8 * (size_in_bits \div 8),
                                 <<0, 1, 2, size_in_bits - 1>>)
         IN IF prime = 0 THEN DiscriminantResult("panic_prime_search", 0)
            ELSE try_from(-prime)

\* Discriminant::from_seed without the forced low bits 1 and 2.
from_seed_low_bit_only(seed, size_in_bits, checks) ==
    IF size_in_bits % 8 # 0 THEN DiscriminantResult("InvalidInput", 0)
    ELSE IF size_in_bits = 0
    THEN DiscriminantResult(
             IF checks THEN "panic_overflow" ELSE "panic_prime_search", 0)
    ELSE LET prime == hash_prime(seed, 8 * (size_in_bits \div 8),
                                 <<0, size_in_bits - 1>>)
         IN IF prime = 0 THEN DiscriminantResult("panic_prime_search", 0)
            ELSE try_from(-prime)

\* Discriminant::from_seed. `size_in_bits - 1` is a usize subtraction: for
\* size_in_bits = 0 it panics where overflow is checked, and elsewhere asks
\* for bit 2^64 - 1 of a prime of no bytes, which no search finds.
from_seed(seed, size_in_bits, checks) ==
    IF size_in_bits % 8 # 0 THEN DiscriminantResult("InvalidInput", 0)
    ELSE IF size_in_bits = 0
    THEN DiscriminantResult(
             IF checks THEN "panic_overflow" ELSE "panic_prime_search", 0)
    ELSE LET prime == hash_prime(seed, 8 * (size_in_bits \div 8),
                                 <<0, 1, 2, size_in_bits - 1>>)
         IN IF prime = 0 THEN DiscriminantResult("panic_prime_search", 0)
            ELSE try_from(-prime)

TryFromValues ==
    LET limit == Pow(2, MAX_DISCRIMINANT_SIZE_IN_BITS)
    IN (-MaxValueOffset..MaxValueOffset)
           \cup {limit + k : k \in -MaxValueOffset..MaxValueOffset}
           \cup {-limit + k : k \in -MaxValueOffset..MaxValueOffset}

Seeds ==
    UNION {[1..n -> 0..MaxSeedByte] : n \in 0..MaxSeedLength}

\* Calls made with the same arguments.
MaxRepeats == 2

\* The arguments of the calls: a value for try_from, or a seed and a size
\* for from_seed.
DInit ==
    /\ \/ /\ dcall = "try_from"
          /\ dvalue \in TryFromValues
          /\ dseed = <<>>
          /\ dsize_in_bits = 0
       \/ /\ dcall = "from_seed"
          /\ dvalue = 0
          /\ dseed \in Seeds
          /\ dsize_in_bits \in 0..MaxSizeInBits
    /\ dchecks \in BOOLEAN
    /\ dcalls = 0
    /\ dresult = NoDiscriminant
    /\ dprevious = NoDiscriminant

\* A call of Discriminant::try_from
discriminant_try_from_call ==
    /\ dcall = "try_from"
    /\ dcalls < MaxRepeats
    /\ dresult' = try_from(dvalue)
    /\ dprevious' = dresult
    /\ dcalls' = dcalls + 1
    /\ UNCHANGED <<dcall, dvalue, dseed, dsize_in_bits, dchecks, drest>>

\* A call of Discriminant::from_seed
discriminant_from_seed_call ==
    /\ dcall = "from_seed"
    /\ dcalls < MaxRepeats
    /\ dresult' = from_seed(dseed, dsize_in_bits, dchecks)
    /\ dprevious' = dresult
    /\ dcalls' = dcalls + 1
    /\ UNCHANGED <<dcall, dvalue, dseed, dsize_in_bits, dchecks, drest>>

----------------------------------------------------------------------------
(* The compressed encoding of quadratic forms (groups/classgroup.rs).       *)
(* Bytes are integers in 0..255; a payload is a sequence of bytes.          *)
(* QuadraticForm::from_a_b_discriminant and generator of this file compute  *)
(* what the operators of the same names above compute.                      *)

COMPRESSED_SIZE == 100

\* Largest |discriminant| of the forms and payloads encoded.
MaxEncodedDiscriminant == 159

\* Largest value of a payload's a' and g fields, and of its t' and b0
\* fields, and the longest chain of calls followed.
MaxFieldValue == 3
MaxSmallFieldValue == 1
MaxCalls == 4

\* QuadraticForm::identity
identity(discriminant) == from_a_b_discriminant(1, 1, discriminant)

\* BigInt::gcd
gcd(a, b) == extended_gcd(a, b).gcd

\* partial_xgcd(a, b): (r, s, t) with r = s a + t b, stopped at r <= sqrt(a)
RECURSIVE partial_xgcd_rounds(_, _, _, _)
partial_xgcd_rounds(r, s, t, a_sqrt) ==
    IF r[2] > a_sqrt
    THEN LET q == TDiv(r[1], r[2])
         IN partial_xgcd_rounds(<<r[2], r[1] - q * r[2]>>,
                                <<s[2], s[1] - q * s[2]>>,
                                <<t[2], t[1] - q * t[2]>>, a_sqrt)
    ELSE <<r[2], s[2], t[2]>>

partial_xgcd(a, b) == partial_xgcd_rounds(<<a, b>>, <<1, 0>>, <<0, 1>>, ISqrt(a))

\* enum CompressedQuadraticForm: Identity, Generator and Nontrivial, as one
\* record (Identity and Generator carry the discriminant only).
CompressedFormat(a_prime, t_prime, g, b0, b_sign, discriminant) ==
    [tag |-> "Nontrivial", a_prime |-> a_prime, t_prime |-> t_prime,
     g |-> g, b0 |-> b0, b_sign |-> b_sign, discriminant |-> discriminant]

Identity(discriminant) ==
    [tag |-> "Identity", a_prime |-> 0, t_prime |-> 0, g |-> 0, b0 |-> 0,
     b_sign |-> FALSE, discriminant |-> discriminant]

Generator(discriminant) ==
    [tag |-> "Generator", a_prime |-> 0, t_prime |-> 0, g |-> 0, b0 |-> 0,
     b_sign |-> FALSE, discriminant |-> discriminant]

NoCompressed ==
    [tag |-> "None", a_prime |-> 0, t_prime |-> 0, g |-> 0, b0 |-> 0,
     b_sign |-> FALSE, discriminant |-> 0]

\* The Nontrivial value of compress for a form with a # b.
compress_nontrivial(a, b, discriminant) ==
    LET b_sign == b < 0
        t_prime == partial_xgcd(a, Abs(b))[3]
        g == gcd(a, t_prime)
        a_prime == TDiv(a, g)
        b0 == FDiv(Abs(b), a_prime)
    IN IF g = 1
       THEN CompressedFormat(a, t_prime, g, 0, b_sign, discriminant)
       ELSE CompressedFormat(a_prime, TDiv(t_prime, g), g,
                             IF b_sign THEN -b0 ELSE b0, b_sign, discriminant)

\* QuadraticForm::compress
compress(f) ==
    IF f.a = 1 /\ f.b = 1 THEN Identity(form_discriminant(f))
    ELSE IF f.a = 2 /\ f.b = 1 THEN Generator(form_discriminant(f))
    ELSE IF f.a = f.b
    THEN CompressedFormat(0, 0, 0, 0, FALSE, form_discriminant(f))
    ELSE compress_nontrivial(f.a, f.b, form_discriminant(f))

\* BigInt::mod_inv(t, m): the inverse in 0..|m|-1, or -1 for None
mod_inv(t, m) ==
    IF \E x \in 0..(Abs(m) - 1) : Modulus(t * x, m) = Modulus(1, m)
    THEN CHOOSE x \in 0..(Abs(m) - 1) : Modulus(t * x, m) = Modulus(1, m)
    ELSE -1

\* The result of a fallible call: a status, and the value when it is "Ok".
Result(status, value) == [status |-> status, value |-> value]

\* Ok(QuadraticForm::from_a_b_discriminant(..)), or the panic of its division
ok_from_a_b_discriminant(a, b, discriminant) ==
    IF a = 0 THEN Result("panic_division_by_zero", NoForm)
    ELSE Result("Ok", from_a_b_discriminant(a, b, discriminant))

\* CompressedQuadraticForm::decompress
decompress(compressed) ==
    IF compressed.tag = "Identity"
    THEN ok_from_a_b_discriminant(1, 1, compressed.discriminant)
    ELSE IF compressed.tag = "Generator"
    THEN ok_from_a_b_discriminant(2, 1, compressed.discriminant)
    ELSE LET a_prime == compressed.a_prime
             t_prime == compressed.t_prime
             g == compressed.g
             b0 == compressed.b0
             discriminant == compressed.discriminant
             t == IF t_prime < 0 THEN t_prime + a_prime ELSE t_prime
             t_inv == mod_inv(t, a_prime)
             d == Modulus(discriminant, a_prime)
             \* (t * t * d).modulus(a_prime), the product taken in two steps
             tmp_debug == Modulus(Modulus(t * t, a_prime) * d, a_prime)
             tmp == ISqrt(tmp_debug)
             out_a == IF g # 1 THEN a_prime * g ELSE a_prime
             out_b0 == FMod(tmp * t_inv, a_prime)
             out_b1 == IF b0 > 0 THEN out_b0 + a_prime * b0 ELSE out_b0
             out_b == IF compressed.b_sign THEN -out_b1 ELSE out_b1
         IN IF t_prime = 0
            THEN ok_from_a_b_discriminant(a_prime, a_prime, discriminant)
            ELSE IF a_prime = 0 THEN Result("InvalidInput", NoForm)
            ELSE IF t_inv = -1 THEN Result("InvalidInput", NoForm)
            ELSE IF tmp * tmp # tmp_debug
            THEN Result("panic_assert_eq", NoForm)
            ELSE ok_from_a_b_discriminant(out_a, out_b, discriminant)

zeros(n) == [i \in 1..n |-> 0]

RECURSIVE reverse(_)
reverse(bytes) ==
    IF bytes = <<>> THEN <<>> ELSE reverse(Tail(bytes)) \o <<Head(bytes)>>

\* BigInt::from_bytes: the big-endian value of the bytes
RECURSIVE from_bytes(_)
from_bytes(bytes) ==
    IF bytes = <<>> THEN 0
    ELSE from_bytes(SubSeq(bytes, 1, Len(bytes) - 1)) * 256
         + bytes[Len(bytes)]

\* BigInt::to_bytes: the big-endian bytes of the magnitude, none for zero
RECURSIVE to_bytes(_)
to_bytes(n) ==
    IF n = 0 THEN <<>>
    ELSE to_bytes(Abs(n) \div 256) \o <<Abs(n) % 256>>

bigint_import(bytes) == from_bytes(reverse(bytes))

bigint_export(n) == reverse(to_bytes(n))

export_to_size(number, target_size) ==
    LET bytes == bigint_export(number)
    IN IF Len(bytes) > target_size THEN Result("InputTooLong", <<>>)
       ELSE Result("Ok", zeros(target_size - Len(bytes)) \o bytes)

\* (discriminant.bit_length() + 31) & !31
d_bits_of(discriminant) == ((bit_length(discriminant) + 31) \div 32) * 32

\* The Nontrivial arm of serialize. g_size is a usize: the subtraction for
\* g = 0 panics with overflow checks and wraps without them; the wrapped
\* value is kept as -1 here, which gives the lengths the wrapped sums give.
serialize_nontrivial(form, checks) ==
    LET flags == (IF form.b_sign THEN 1 ELSE 0)
                 + (IF form.t_prime < 0 THEN 2 ELSE 0)
        d_bits == d_bits_of(form.discriminant)
        g_size == (bit_length(form.g) + 7) \div 8 - 1
        a_bytes == export_to_size(form.a_prime, d_bits \div 16 - g_size)
        t_bytes == export_to_size(form.t_prime, d_bits \div 32 - g_size)
        g_bytes == export_to_size(form.g, g_size + 1)
        b0_bytes == export_to_size(form.b0, g_size + 1)
        bytes == <<flags, Modulus(g_size, 256)>> \o a_bytes.value
                 \o t_bytes.value \o g_bytes.value \o b0_bytes.value
    IN IF g_size < 0 /\ checks THEN Result("panic_subtract_overflow", <<>>)
       ELSE IF d_bits \div 32 - g_size < 0
       THEN Result("panic_subtract_overflow", <<>>)
       ELSE IF a_bytes.status # "Ok" THEN a_bytes
       ELSE IF t_bytes.status # "Ok" THEN t_bytes
       ELSE IF g_bytes.status # "Ok" THEN g_bytes
       ELSE IF b0_bytes.status # "Ok" THEN b0_bytes
       ELSE Result("Ok", bytes \o zeros(COMPRESSED_SIZE - Len(bytes)))

\* CompressedQuadraticForm::serialize
serialize(compressed, checks) ==
    IF compressed.tag = "Identity"
    THEN Result("Ok", <<4>> \o zeros(COMPRESSED_SIZE - 1))
    ELSE IF compressed.tag = "Generator"
    THEN Result("Ok", <<8>> \o zeros(COMPRESSED_SIZE - 1))
    ELSE serialize_nontrivial(compressed, checks)

\* bytes[0] & mask != 0, for a mask of one bit
bit_set(byte, mask) == (byte \div mask) % 2 = 1

\* bytes[offset..offset + length]
byte_range(bytes, offset, length) == SubSeq(bytes, offset + 1, offset + length)

\* CompressedQuadraticForm::deserialize
deserialize(bytes, discriminant) ==
    LET d_bits == d_bits_of(discriminant)
        g_size == bytes[2]
        a_length == d_bits \div 16 - g_size
        t_length == d_bits \div 32 - g_size
        a_prime == bigint_import(byte_range(bytes, 2, a_length))
        t_abs == bigint_import(byte_range(bytes, 2 + a_length, t_length))
        t_prime == IF bit_set(bytes[1], 2) THEN -t_abs ELSE t_abs
        g == bigint_import(byte_range(bytes, 2 + a_length + t_length,
                                      g_size + 1))
        b0 == bigint_import(byte_range(bytes, 2 + a_length + t_length
                                              + g_size + 1, g_size + 1))
    IN IF Len(bytes) # COMPRESSED_SIZE
       THEN Result("InputLengthWrong", NoCompressed)
       ELSE IF bit_set(bytes[1], 4) THEN Result("Ok", Identity(discriminant))
       ELSE IF bit_set(bytes[1], 8) THEN Result("Ok", Generator(discriminant))
       ELSE IF g_size >= d_bits \div 32
       THEN Result("InvalidInput", NoCompressed)
       ELSE Result("Ok", CompressedFormat(a_prime, t_prime, g, b0,
                                          bit_set(bytes[1], 1), discriminant))

\* The discriminants of the encoded forms: 1 mod 8, as from_seed makes them.
EncodedDiscriminants ==
    {d \in -MaxEncodedDiscriminant..-1 : Modulus(d, 8) = 1}

\* The reduced primitive forms of a discriminant.
ReducedForms(discriminant) ==
    {f \in {from_a_b_discriminant(a, b, discriminant) :
              a \in 1..ISqrt(Abs(discriminant) \div 3),
              b \in -ISqrt(Abs(discriminant) \div 3)
                    ..ISqrt(Abs(discriminant) \div 3)} :
        /\ form_discriminant(f) = discriminant
        /\ is_reduced(f)
        /\ gcd(gcd(f.a, f.b), f.c) = 1}

\* A payload of COMPRESSED_SIZE bytes for a discriminant of at most 32 bits:
\* the flags, g_size, a' in two bytes, t', g and b0 in one byte each, and
\* padding, whose last byte is given.
Payload(flags, g_size, a_prime, t_prime, g, b0, last) ==
    <<flags, g_size, a_prime, 0, t_prime, g, b0>>
        \o zeros(COMPRESSED_SIZE - 8) \o <<last>>

Payloads ==
    {Payload(flags, g_size, a_prime, t_prime, g, b0, last) :
        flags \in {0, 1, 2, 3, 4, 8, 16}, g_size \in {0, 1},
        a_prime \in 0..MaxFieldValue, t_prime \in 0..MaxSmallFieldValue,
        g \in 0..MaxFieldValue, b0 \in 0..MaxSmallFieldValue,
        last \in {0, 1}}

\* A chain of calls starts from a reduced form or from a payload.
CInit ==
    /\ cD \in EncodedDiscriminants
    /\ cops = <<>>
    /\ cstatus = "Ok"
    /\ \/ /\ cform0 \in ReducedForms(cD)
          /\ cbytes0 = <<>>
          /\ cheld = "form"
       \/ /\ cform0 = NoForm
          /\ cbytes0 \in Payloads
          /\ cheld = "bytes"
    /\ cform = cform0
    /\ cbytes = cbytes0
    /\ ccompressed = NoCompressed
    /\ cdeserialized = NoCompressed

\* form.compress()
encoding_compress ==
    /\ cheld = "form"
    /\ Len(cops) < MaxCalls
    /\ cops' = Append(cops, "compress")
    /\ ccompressed' = compress(cform)
    /\ cstatus' = "Ok"
    /\ cheld' = "compressed"
    /\ UNCHANGED <<cD, cform, cbytes, cform0, cbytes0,
                   cdeserialized, crest>>

\* compressed.decompress()
encoding_decompress ==
    /\ cheld = "compressed"
    /\ Len(cops) < MaxCalls
    /\ cops' = Append(cops, "decompress")
    /\ LET result == decompress(ccompressed)
       IN /\ cstatus' = result.status
          /\ cform' = result.value
          /\ cheld' = IF result.status = "Ok" THEN "form" ELSE "nothing"
    /\ UNCHANGED <<cD, ccompressed, cbytes, cform0, cbytes0,
                   cdeserialized, crest>>

\* compressed.serialize(), in a build with or without overflow checks
encoding_serialize ==
    /\ cheld = "compressed"
    /\ Len(cops) < MaxCalls
    /\ cops' = Append(cops, "serialize")
    /\ \E checks \in BOOLEAN :
        LET result == serialize(ccompressed, checks)
        IN /\ cstatus' = result.status
           /\ cbytes' = result.value
           /\ cheld' = IF result.status = "Ok" THEN "bytes" ELSE "nothing"
    /\ UNCHANGED <<cD, cform, ccompressed, cform0, cbytes0,
                   cdeserialized, crest>>

\* CompressedQuadraticForm::deserialize(bytes, discriminant)
encoding_deserialize ==
    /\ cheld = "bytes"
    /\ Len(cops) < MaxCalls
    /\ cops' = Append(cops, "deserialize")
    /\ LET result == deserialize(cbytes, cD)
       IN /\ cstatus' = result.status
          /\ ccompressed' = result.value
          /\ cdeserialized' = result.value
          /\ cheld' = IF result.status = "Ok" THEN "compressed" ELSE "nothing"
    /\ UNCHANGED <<cD, cform, cbytes, cform0, cbytes0, crest>>

----------------------------------------------------------------------------
(* CompressedQuadraticForm::deserialize over discriminants of up to and     *)
(* beyond 1024 bits (groups/classgroup.rs). deserialize reads of the         *)
(* discriminant its bit length only, so the discriminant is given by it.    *)

\* The outcome of a call: the status, the variant returned, the offset and
\* length of the ranges taken of the payload for a', t', g and b0, and the
\* end of the last range asked for.
Layout(status, tag, a_range, t_range, g_range, b0_range, read_end) ==
    [status |-> status, tag |-> tag, a_range |-> a_range,
     t_range |-> t_range, g_range |-> g_range, b0_range |-> b0_range,
     read_end |-> read_end]

NoLayout == Layout("none", "None", <<0, 0>>, <<0, 0>>, <<0, 0>>, <<0, 0>>, 0)

\* The outcome without ranges taken, having read the bytes before read_end
LayoutOnly(status, tag, read_end) ==
    Layout(status, tag, <<0, 0>>, <<0, 0>>, <<0, 0>>, <<0, 0>>, read_end)

\* (bit_length + 31) & !31
round_up_to_32(bits) == ((bits + 31) \div 32) * 32

\* deserialize without the check of g_size: the subtraction
\* d_bits / 32 - g_size of usizes panics or wraps.
deserialize_layout_unchecked_g_size(bytes, discriminant_bit_length) ==
    LET d_bits == round_up_to_32(discriminant_bit_length)
        g_size == bytes[2]
        a_length == d_bits \div 16 - g_size
        t_length == d_bits \div 32 - g_size
        a_offset == 2
        t_offset == a_offset + a_length
        g_offset == t_offset + t_length
        b0_offset == g_offset + g_size + 1
    IN IF Len(bytes) # COMPRESSED_SIZE
       THEN LayoutOnly("InputLengthWrong", "None", 0)
       ELSE IF bit_set(bytes[1], 4) THEN LayoutOnly("Ok", "Identity", 1)
       ELSE IF bit_set(bytes[1], 8) THEN LayoutOnly("Ok", "Generator", 1)
       ELSE IF t_length < 0
       THEN LayoutOnly("panic_subtract_overflow", "None", 2)
       ELSE IF t_offset > Len(bytes)
       THEN LayoutOnly("panic_slice_index", "None", t_offset)
       ELSE IF g_offset > Len(bytes)
       THEN LayoutOnly("panic_slice_index", "None", g_offset)
       ELSE IF b0_offset > Len(bytes)
       THEN LayoutOnly("panic_slice_index", "None", b0_offset)
       ELSE IF b0_offset + g_size + 1 > Len(bytes)
       THEN LayoutOnly("panic_slice_index", "None", b0_offset + g_size + 1)
       ELSE Layout("Ok", "Nontrivial", <<a_offset, a_length>>,
                   <<t_offset, t_length>>, <<g_offset, g_size + 1>>,
                   <<b0_offset, g_size + 1>>, b0_offset + g_size + 1)

\* CompressedQuadraticForm::deserialize: its checks and the ranges it takes
\* of the payload. A range that ends after the payload panics.
deserialize_layout(bytes, discriminant_bit_length) ==
    LET d_bits == round_up_to_32(discriminant_bit_length)
        g_size == bytes[2]
        a_length == d_bits \div 16 - g_size
        t_length == d_bits \div 32 - g_size
        a_offset == 2
        t_offset == a_offset + a_length
        g_offset == t_offset + t_length
        b0_offset == g_offset + g_size + 1
    IN IF Len(bytes) # COMPRESSED_SIZE
       THEN LayoutOnly("InputLengthWrong", "None", 0)
       ELSE IF bit_set(bytes[1], 4) THEN LayoutOnly("Ok", "Identity", 1)
       ELSE IF bit_set(bytes[1], 8) THEN LayoutOnly("Ok", "Generator", 1)
       ELSE IF g_size >= d_bits \div 32
       THEN LayoutOnly("InvalidInput", "None", 2)
       ELSE IF t_offset > Len(bytes)
       THEN LayoutOnly("panic_slice_index", "None", t_offset)
       ELSE IF g_offset > Len(bytes)
       THEN LayoutOnly("panic_slice_index", "None", g_offset)
       ELSE IF b0_offset > Len(bytes)
       THEN LayoutOnly("panic_slice_index", "None", b0_offset)
       ELSE IF b0_offset + g_size + 1 > Len(bytes)
       THEN LayoutOnly("panic_slice_index", "None", b0_offset + g_size + 1)
       ELSE Layout("Ok", "Nontrivial", <<a_offset, a_length>>,
                   <<t_offset, t_length>>, <<g_offset, g_size + 1>>,
                   <<b0_offset, g_size + 1>>, b0_offset + g_size + 1)

\* The lengths of the payloads, the flags and g_size bytes tried, and the
\* bit lengths of the discriminants.
PayloadLengths ==
    {0, 1, 2, 50, COMPRESSED_SIZE - 1, COMPRESSED_SIZE, COMPRESSED_SIZE + 1}

FlagBytes == {0, 1, 2, 3, 4, 8, 12, 16}

GSizeBytes == {0, 1, 2, 15, 16, 30, 31, 32, 33, 255}

DiscriminantBitLengths == {1, 31, 32, 33, 64, 512, 992, 993, 1024, 1025, 1056}

\* A payload of the given length: the flags, g_size, and bytes of one value
LayoutPayload(flags, g_size, fill, length) ==
    SubSeq(<<flags, g_size>> \o [i \in 1..(COMPRESSED_SIZE - 1) |-> fill],
           1, length)

LInit ==
    /\ lbytes \in {LayoutPayload(flags, g_size, fill, length) :
                     flags \in FlagBytes, g_size \in GSizeBytes,
                     fill \in {0, 255}, length \in PayloadLengths}
    /\ lbit_length \in DiscriminantBitLengths
    /\ llayout = NoLayout

\* CompressedQuadraticForm::deserialize(bytes, discriminant)
deserialize_call ==
    /\ llayout = NoLayout
    /\ llayout' = deserialize_layout(lbytes, lbit_length)
    /\ UNCHANGED <<lbytes, lbit_length, lrest>>

----------------------------------------------------------------------------
(* CombMultiplier (groups/multiplier/comb_method.rs) over a cyclic group:   *)
(* the elements are the integers modulo GroupOrder, the sum of two elements *)
(* is their sum modulo it. A scalar is its array of SCALAR_SIZE bytes, the  *)
(* lowest first. Rows and columns of the table count from 0 in the code and *)
(* from 1 here.                                                             *)

\* The order of the group, the largest WIDTH and HEIGHT, and the base
\* elements tried.
GroupOrder == 251
MaxWidth == 8
MaxHeight == 17

\* GroupElement: zero(), +, double() and the multiple by a scalar
group_zero == 0

group_add(p, q) == (p + q) % GroupOrder

group_double(p) == group_add(p, p)

scalar_mul(element, scalar) == ((scalar % GroupOrder) * element) % GroupOrder

\* The ceiling of log2(width), in the place of the floor.
WINDOW_WIDTH_ceiling(width) ==
    IF width = Pow(2, bit_length(width) - 1) THEN bit_length(width) - 1
    ELSE bit_length(width)

\* const WINDOW_WIDTH = usize::BITS - WIDTH.leading_zeros() - 1
WINDOW_WIDTH(width) == bit_length(width) - 1

\* integer_utils::div_ceil for a denominator that is not zero
div_ceil(numerator, denominator) ==
    (numerator + denominator - 1) \div denominator

\* The value of a scalar: its bytes are little-endian
scalar_value(bytes) == bigint_import(bytes)

\* integer_utils::compute_base_2w_expansion: the digits of the scalar in
\* base 2^window_size, the lowest first, for all bits of the byte array
compute_base_2w_expansion(bytes, window_size) ==
    [i \in 1..div_ceil(8 * Len(bytes), window_size) |->
        (scalar_value(bytes) \div Pow(2, window_size * (i - 1)))
            % Pow(2, window_size)]

\* `for _ in 0..WINDOW_WIDTH { cache[i][j] = cache[i][j].double() }`
RECURSIVE doubled(_, _)
doubled(element, times) ==
    IF times = 0 THEN element
    ELSE With(group_double(element),
              LAMBDA next : doubled(next, times - 1))

\* `for j in 1..WIDTH { cache[0][j] = cache[0][j - 1] + base_element }`
RECURSIVE first_row(_, _, _)
first_row(row, width, base_element) ==
    IF Len(row) >= width THEN row
    ELSE With(Append(row, group_add(row[Len(row)], base_element)),
              LAMBDA next : first_row(next, width, base_element))

\* The rows of the table with each row doubled once from the row before.
RECURSIVE cache_rows_doubled_once(_, _, _)
cache_rows_doubled_once(rows, height, window) ==
    IF Len(rows) >= height THEN rows
    ELSE With(Append(rows, [j \in 1..Len(rows[1]) |->
                               doubled(rows[Len(rows)][j], 1)]),
              LAMBDA next : cache_rows_doubled_once(next, height, window))

\* `for i in 1..HEIGHT { for j in 0..WIDTH { .. } }`: each row is the row
\* before it doubled WINDOW_WIDTH times
RECURSIVE cache_rows(_, _, _)
cache_rows(rows, height, window) ==
    IF Len(rows) >= height THEN rows
    ELSE With(Append(rows, [j \in 1..Len(rows[1]) |->
                               doubled(rows[Len(rows)][j], window)]),
              LAMBDA next : cache_rows(next, height, window))

\* The outcome of new: a status and the table.
Comb(status, cache) == [status |-> status, cache |-> cache]

\* CombMultiplier::new
new(base_element, width, height, scalar_size) ==
    IF WINDOW_WIDTH(width) = 0 THEN Comb("panic_division_by_zero", <<>>)
    ELSE IF height < div_ceil(scalar_size * 8, WINDOW_WIDTH(width))
    THEN Comb("panic_invalid_parameters", <<>>)
    ELSE Comb("built",
              cache_rows(<<first_row(<<group_zero>>, width, base_element)>>,
                         height, WINDOW_WIDTH(width)))

\* `result += self.get_precomputed_multiple(i, *digit)` for the digits from
\* the i-th on; -1 for an index outside the table
RECURSIVE sum_of_multiples(_, _, _, _)
sum_of_multiples(cache, digits, i, result) ==
    IF i > Len(digits) THEN result
    ELSE IF i > Len(cache) \/ digits[i] + 1 > Len(cache[i]) THEN -1
    ELSE With(group_add(result, cache[i][digits[i] + 1]),
              LAMBDA next : sum_of_multiples(cache, digits, i + 1, next))

\* CombMultiplier::mul
comb_multiplier_mul(cache, scalar_bytes, width) ==
    LET sum(digits) ==
            IF Len(cache) = 0 \/ digits[1] + 1 > Len(cache[1]) THEN -1
            ELSE sum_of_multiples(cache, digits, 2, cache[1][digits[1] + 1])
    IN With(compute_base_2w_expansion(scalar_bytes, WINDOW_WIDTH(width)), sum)

\* The bytes of the scalars tried, and the scalars of a size
ScalarBytes == {0, 1, 2, 7, 8, 100, 128, 255}

Scalars(scalar_size) == [1..scalar_size -> ScalarBytes]

MInit ==
    /\ WIDTH \in 1..MaxWidth
    /\ HEIGHT \in 0..MaxHeight
    /\ SCALAR_SIZE \in {1, 2}
    /\ mbase_element \in {1, 5}
    /\ mpc = "new"
    /\ mcache = <<>>
    /\ mscalar = <<>>
    /\ mresult = -1

\* CombMultiplier::<G, S, WIDTH, HEIGHT, SCALAR_SIZE>::new(base_element)
comb_new ==
    /\ mpc = "new"
    /\ \E made \in {new(mbase_element, WIDTH, HEIGHT, SCALAR_SIZE)} :
          /\ mpc' = made.status
          /\ mcache' = made.cache
    /\ UNCHANGED <<WIDTH, HEIGHT, SCALAR_SIZE, mbase_element, mscalar,
                   mresult, mrest>>

\* multiplier.mul(&scalar)
comb_mul ==
    /\ mpc = "built"
    /\ mscalar = <<>>
    /\ \E scalar \in Scalars(SCALAR_SIZE) :
          /\ mscalar' = scalar
          /\ mresult' = comb_multiplier_mul(mcache, scalar, WIDTH)
    /\ UNCHANGED <<WIDTH, HEIGHT, SCALAR_SIZE, mbase_element, mpc, mcache,
                   mrest>>

----------------------------------------------------------------------------
(* QuadraticForm::double (class_group/mod.rs), one round of the loop of    *)
(* step 3 at a time.                                                        *)

\* Largest coefficients a and |b| of the forms doubled step by step.
MaxLoopCoefficient == 7

\* `&by.abs() > &self.partial_gcd_limit && !bx.is_zero()`
partial_xgcd_continues(bx, by, limit) == Abs(by) > limit /\ bx # 0

\* One round of the loop that leaves z as it is.
partial_xgcd_round_uncounted(bx, by, x, y, z) ==
    [bx |-> TRem(by, bx), by |-> bx, x |-> y - TDiv(by, bx) * x, y |-> x,
     z |-> z]

\* One round of the loop of step 3.
partial_xgcd_round(bx, by, x, y, z) ==
    [bx |-> TRem(by, bx), by |-> bx, x |-> y - TDiv(by, bx) * x, y |-> x,
     z |-> z + 1]

\* `if z.is_odd() { by = -by; y = -y; }`
negated_if_odd(value, z) == IF z % 2 = 1 THEN -value ELSE value

NInit ==
    /\ nD \in Discriminants
    /\ nform = NoForm
    /\ npc = "double"
    /\ nbx = 0
    /\ nby = 0
    /\ nx = 0
    /\ ny = 0
    /\ nz = 0
    /\ nrounds = 0
    /\ nloop_by = 0
    /\ nloop_y = 0
    /\ nbranch = "none"
    /\ nresult = NoForm

\* The forms doubled step by step: those from_a_b_discriminant builds with
\* a > 0.
LoopForms(discriminant) ==
    {from_a_b_discriminant(a, b, discriminant) :
        a \in 1..MaxLoopCoefficient,
        b \in -MaxLoopCoefficient..MaxLoopCoefficient}

\* A call of double on a form: steps 1 and 2, and the initialisation of
\* step 3.
double_enter ==
    /\ npc = "double"
    /\ \E f \in LoopForms(nD) :
       \E xgcd \in {extended_gcd(f.a, f.b)} :
       \E scaled \in {double_scaling(f.a, f.b, xgcd.gcd)} :
          /\ nform' = f
          /\ nbx' = Modulus(f.c * xgcd.y, scaled[1])
          /\ nby' = scaled[1]
    /\ nx' = 1
    /\ ny' = 0
    /\ nz' = 0
    /\ npc' = "loop"
    /\ UNCHANGED <<nD, nrounds, nloop_by, nloop_y, nbranch, nresult, nrest>>

\* One round of `while &by.abs() > &self.partial_gcd_limit && !bx.is_zero()`
double_loop ==
    /\ npc = "loop"
    /\ partial_xgcd_continues(nbx, nby, partial_gcd_limit(nD))
    /\ \E round \in {partial_xgcd_round(nbx, nby, nx, ny, nz)} :
          /\ nbx' = round.bx
          /\ nby' = round.by
          /\ nx' = round.x
          /\ ny' = round.y
          /\ nz' = round.z
    /\ nrounds' = nrounds + 1
    /\ UNCHANGED <<nD, nform, npc, nloop_by, nloop_y, nbranch, nresult,
                   nrest>>

\* The exit of the loop, the change of sign, step 4 or 5 and reduce().
double_finish ==
    /\ npc = "loop"
    /\ ~partial_xgcd_continues(nbx, nby, partial_gcd_limit(nD))
    /\ nloop_by' = nby
    /\ nloop_y' = ny
    /\ nby' = negated_if_odd(nby, nz)
    /\ ny' = negated_if_odd(ny, nz)
    /\ nbranch' = IF nz = 0 THEN "step4" ELSE "step5"
    /\ \E result \in {double(nform, partial_gcd_limit(nD))} :
          /\ nresult' = result
          /\ npc' = IF result = NoForm THEN "panic" ELSE "returned"
    /\ UNCHANGED <<nD, nform, nbx, nx, nz, nrounds, nrest>>

----------------------------------------------------------------------------
(* Idle states of the components a specification does not run.             *)

DIdle ==
    /\ dcall = "none" /\ dvalue = 0 /\ dseed = <<>> /\ dsize_in_bits = 0
    /\ dchecks = FALSE /\ dcalls = 0 /\ dresult = NoDiscriminant /\ dprevious = NoDiscriminant

SIdle ==
    /\ sevaluate = NoParameters /\ sverify = NoParameters /\ spc = "idle"
    /\ sseed_evaluate = <<>> /\ sseed_verify = <<>>
    /\ schallenge_evaluate = 0 /\ schallenge_verify = 0

LIdle == lbytes = <<>> /\ lbit_length = 0 /\ llayout = NoLayout

MIdle ==
    /\ WIDTH = 1 /\ HEIGHT = 0 /\ SCALAR_SIZE = 0 /\ mbase_element = 0
    /\ mpc = "idle" /\ mcache = <<>> /\ mscalar = <<>> /\ mresult = -1

NIdle ==
    /\ nD = -3 /\ nform = NoForm /\ npc = "idle" /\ nbx = 0 /\ nby = 0
    /\ nx = 0 /\ ny = 0 /\ nz = 0 /\ nrounds = 0 /\ nloop_by = 0
    /\ nloop_y = 0 /\ nbranch = "none" /\ nresult = NoForm

XIdle ==
    /\ xa = 0 /\ xb = 0 /\ xpc = "idle" /\ xflipped = FALSE
    /\ xr = <<0, 0>> /\ xs = <<0, 0>> /\ xt = <<0, 0>> /\ xout = NoOutput

EIdle ==
    /\ ea = 0 /\ eb = 1 /\ echecks = FALSE /\ epc = "idle"
    /\ e_a_digits = <<>> /\ e_b_digits = <<>> /\ e_result_length = 0
    /\ e_length = 0 /\ e_b_prime = 0 /\ e_q = <<>> /\ e_k = 0 /\ eres = -1

FIdle ==
    /\ fD = -3 /\ fform = NoForm /\ fop = "idle" /\ fprev = NoForm
    /\ fother = NoForm /\ fscale = 0 /\ fx0 = NoForm /\ fn = 0

VIdle ==
    /\ vD = -3 /\ vT = 0 /\ vinput = NoForm /\ vpc = "idle"
    /\ vi = 0 /\ voutput = NoForm /\ vproof = NoForm /\ vqr = <<0, 0>>
    /\ vchallenge = 0 /\ varg_output = NoForm /\ varg_proof = NoForm
    /\ vresult = "none" /\ vmultiplier = NoMultiplier
    /\ vfast_result = "none"

CIdle ==
    /\ cD = -7 /\ cops = <<>> /\ cstatus = "Ok"
    /\ cheld = "nothing" /\ cform = NoForm /\ ccompressed = NoCompressed
    /\ cbytes = <<>> /\ cform0 = NoForm /\ cbytes0 = <<>>
    /\ cdeserialized = NoCompressed

----------------------------------------------------------------------------
(* Specifications, one per component.                                      *)

InitXgcd ==
    XInit /\ EIdle /\ FIdle /\ VIdle /\ CIdle /\ DIdle /\ SIdle /\ LIdle
        /\ MIdle /\ NIdle

NextXgcd == xgcd_enter \/ xgcd_step \/ xgcd_return

SpecXgcd == InitXgcd /\ [][NextXgcd]_vars

\* A call inside the main loop runs the next iteration.
SpecXgcdFair == SpecXgcd /\ WF_vars(xgcd_step)

InitExactDiv ==
    EInit /\ XIdle /\ FIdle /\ VIdle /\ CIdle /\ DIdle /\ SIdle /\ LIdle
        /\ MIdle /\ NIdle

NextExactDiv == exact_div_setup \/ exact_div_step \/ exact_div_return

SpecExactDiv == InitExactDiv /\ [][NextExactDiv]_vars

InitForms ==
    FInit /\ XIdle /\ EIdle /\ VIdle /\ CIdle /\ DIdle /\ SIdle /\ LIdle
        /\ MIdle /\ NIdle

NextForms ==
    \/ form_from_a_b_discriminant
    \/ form_generator
    \/ form_zero
    \/ form_double
    \/ form_add
    \/ form_mul

SpecForms == InitForms /\ [][NextForms]_vars

InitVdf ==
    VInit /\ XIdle /\ EIdle /\ FIdle /\ CIdle /\ DIdle /\ SIdle /\ LIdle
        /\ MIdle /\ NIdle

NextVdf ==
    \/ vdf_evaluate_enter
    \/ vdf_evaluate_double
    \/ vdf_evaluate_challenge
    \/ vdf_evaluate_prove
    \/ vdf_evaluate_return
    \/ vdf_verify
    \/ fast_verifier_new
    \/ fast_verifier_verify

SpecVdf == InitVdf /\ [][NextVdf]_vars

InitVdfAnyInput ==
    VInitAnyInput /\ XIdle /\ EIdle /\ FIdle /\ CIdle /\ DIdle /\ SIdle
        /\ LIdle /\ MIdle /\ NIdle

SpecVdfAnyInput == InitVdfAnyInput /\ [][NextVdf]_vars

InitEncoding ==
    CInit /\ XIdle /\ EIdle /\ FIdle /\ VIdle /\ DIdle /\ SIdle /\ LIdle
        /\ MIdle /\ NIdle

NextEncoding ==
    \/ encoding_compress
    \/ encoding_decompress
    \/ encoding_serialize
    \/ encoding_deserialize

SpecEncoding == InitEncoding /\ [][NextEncoding]_vars

InitDiscriminant ==
    DInit /\ XIdle /\ EIdle /\ FIdle /\ VIdle /\ CIdle /\ SIdle /\ LIdle
        /\ MIdle /\ NIdle

NextDiscriminant ==
    \/ discriminant_try_from_call
    \/ discriminant_from_seed_call

SpecDiscriminant == InitDiscriminant /\ [][NextDiscriminant]_vars

InitChallenge ==
    SInit /\ XIdle /\ EIdle /\ FIdle /\ VIdle /\ CIdle /\ DIdle /\ LIdle
        /\ MIdle /\ NIdle

NextChallenge == challenge_in_evaluate \/ challenge_in_verify

SpecChallenge == InitChallenge /\ [][NextChallenge]_vars

InitLayout ==
    LInit /\ XIdle /\ EIdle /\ FIdle /\ VIdle /\ CIdle /\ DIdle /\ SIdle
        /\ MIdle /\ NIdle

NextLayout == deserialize_call

SpecLayout == InitLayout /\ [][NextLayout]_vars

InitComb ==
    MInit /\ XIdle /\ EIdle /\ FIdle /\ VIdle /\ CIdle /\ DIdle /\ SIdle
        /\ LIdle /\ NIdle

NextComb == comb_new \/ comb_mul

SpecComb == InitComb /\ [][NextComb]_vars

InitDoubleSteps ==
    NInit /\ XIdle /\ EIdle /\ FIdle /\ VIdle /\ CIdle /\ DIdle /\ SIdle
        /\ LIdle /\ MIdle

NextDoubleSteps == double_enter \/ double_loop \/ double_finish

SpecDoubleSteps == InitDoubleSteps /\ [][NextDoubleSteps]_vars

\* A call of double inside the loop of step 3 runs the next round.
SpecDoubleStepsFair == SpecDoubleSteps /\ WF_vars(double_loop)

----------------------------------------------------------------------------
(* Properties of extended_euclidean_algorithm.                             *)

\* C5: for all signed a and b (zero allowed) the returned gcd is >= 0, is the
\* greatest common divisor of |a| and |b|, and x*a + y*b = gcd.
C5_XgcdBezout ==
    xpc = "done" =>
        /\ xout.gcd >= 0
        /\ xout.gcd = GcdRef(Abs(xa), Abs(xb))
        /\ xout.x * xa + xout.y * xb = xout.gcd

\* A mixed-sign call that went through the swapped branch and returned.
C5_Witness ==
    xpc = "done" /\ xflipped /\ xa = 4 /\ xb = -6 /\ xout.gcd = 2

\* C6: for a and b not both zero the returned quotients are exact and
\* correctly signed: a_divided_by_gcd * gcd = a and b_divided_by_gcd * gcd = b.
C6_XgcdQuotients ==
    (xpc = "done" /\ ~(xa = 0 /\ xb = 0)) =>
        /\ xout.a_divided_by_gcd * xout.gcd = xa
        /\ xout.b_divided_by_gcd * xout.gcd = xb

\* A swapped call with a negative operand and a zero operand each returned.
C6_Witness ==
    xpc = "done" /\ xflipped /\ xa = 0 /\ xb = -5
        /\ xout.b_divided_by_gcd = -1 /\ xout.a_divided_by_gcd = 0

----------------------------------------------------------------------------
(* Properties of exact_div.                                                *)

\* C7: for every a and b > 0 with b dividing a, exact_div(a, b) ends without
\* a panic and returns a / b.
C7_ExactDiv ==
    /\ epc \notin {"panic_length_underflow", "panic_no_inverse",
                   "panic_index", "panic_sub_underflow"}
    /\ epc = "done" => eres * eb = ea

----------------------------------------------------------------------------
(* Properties of the quadratic forms.                                      *)

\* A reduced, primitive form of the discriminant: an element of the group.
IsGroupElement(f, discriminant) ==
    /\ f # NoForm
    /\ form_discriminant(f) = discriminant
    /\ is_reduced(f)
    /\ GcdRef(GcdRef(f.a, f.b), f.c) = 1

\* C4: for every form f of the discriminant (gcd(a, b) > 1 included)
\* double(f) equals the reduced composition f + f = f.mul(2), and after each
\* of n successive double() calls from x the form equals x.mul(2^n).
C4_DoubleIsMulByTwo ==
    /\ (fop = "double" /\ IsGroupElement(fprev, fD)) =>
            fform = mul(fprev, 2)
    /\ (fop = "double" /\ IsGroupElement(fx0, fD)) =>
            fform = mul(fx0, Pow(2, fn))

\* The reduction condition of the claim C10, written from its words.
ReducedAsClaimed(f) ==
    /\ Abs(f.b) <= f.a
    /\ f.a <= f.c
    /\ (f.a = f.c \/ Abs(f.b) = f.a) => f.b >= 0

\* C10 as stated: every form a constructor or operation returns is reduced.
C10_EveryReturnedFormReduced ==
    fform # NoForm => ReducedAsClaimed(fform)

\* C10 amended: the forms add and double return, and the form mul returns
\* for a reduced form, are reduced, and so is zero(D); generator(D) returns
\* (2, 1, c) as computed, which is reduced exactly when D <= -15.
C10_OperationsReturnReduced ==
    /\ (fop \in {"add", "double"} /\ fform # NoForm) => ReducedAsClaimed(fform)
    /\ (fop = "mul" /\ is_reduced(fprev) /\ fform # NoForm) =>
            ReducedAsClaimed(fform)
    /\ fop = "zero" => ReducedAsClaimed(fform)
    /\ fop = "generator" => (ReducedAsClaimed(fform) <=> fD <= -15)

\* A doubling whose unreduced result (6, 5, 2) had to be reduced.
C10_Witness ==
    /\ fop = "double"
    /\ fD = -47
    /\ fprev = Form(3, -1, 4)
    /\ ~ReducedAsClaimed(double_unreduced(fprev, partial_gcd_limit(fD)))
    /\ ReducedAsClaimed(fform)

----------------------------------------------------------------------------
(* Properties of the VDF.                                                   *)

\* C1: for every group parameter, every number of iterations (0 included)
\* and every input of the group, evaluate returns (output, proof) and verify
\* of that output and proof returns Ok.
C1_Completeness ==
    /\ vpc # "panic"
    /\ (vpc = "verified" /\ varg_output = voutput /\ varg_proof = vproof) =>
            vresult = "Ok"

\* The verification equation, with the challenge recomputed from the output.
EquationHolds(output, proof) ==
    LET challenge == compute_challenge(vT, vD, vinput, output)
    IN add(mul(proof, challenge), mul(vinput, Pow(2, vT) % challenge)) = output

SameGroupAsInput(f) == form_discriminant(f) = form_discriminant(vinput)

\* C2: for output and proof in the group of the input, verify returns Ok
\* exactly when proof*challenge + input*(2^iterations mod challenge) equals
\* the output, and Err(InvalidProof) in every other such case.
C2_VerifyEquation ==
    (vpc = "verified" /\ SameGroupAsInput(varg_output)
                      /\ SameGroupAsInput(varg_proof)) =>
        vresult = IF EquationHolds(varg_output, varg_proof)
                  THEN "Ok" ELSE "InvalidProof"

\* A call of verify that returned Ok for an output and a proof that are not
\* the identity, after three iterations.
C2_Witness ==
    /\ vpc = "verified"
    /\ vresult = "Ok"
    /\ vT = 3
    /\ vD = -47
    /\ varg_proof # zero(vD)
    /\ varg_output # zero(vD)

\* C3 as stated: with (output, proof) from evaluate, verify returns
\* Err(InvalidProof) for every other output of the group with the proof, and
\* for the output with every other proof of the group.
C3_TamperDetection ==
    /\ (vpc = "verified" /\ varg_output # voutput /\ varg_proof = vproof
            /\ SameGroupAsInput(varg_output)) => vresult = "InvalidProof"
    /\ (vpc = "verified" /\ varg_output = voutput /\ varg_proof # vproof
            /\ SameGroupAsInput(varg_proof)) => vresult = "InvalidProof"

\* C3 amended: a changed output or proof is rejected with InvalidProof
\* unless the changed pair itself satisfies the equation under the challenge
\* recomputed from it, and then verify returns Ok; an output or proof that
\* is not in the group of the input is rejected with InvalidInput.
C3_TamperedPairRejectedUnlessValid ==
    (vpc = "verified" /\ (varg_output # voutput \/ varg_proof # vproof)) =>
        vresult = IF ~SameGroupAsInput(varg_output)
                     \/ ~SameGroupAsInput(varg_proof) THEN "InvalidInput"
                  ELSE IF EquationHolds(varg_output, varg_proof) THEN "Ok"
                  ELSE "InvalidProof"

\* The output of a correct evaluation replaced by its double, as in
\* test_prove_and_verify, and rejected.
C3_Witness ==
    /\ vpc = "verified"
    /\ vT = 3
    /\ voutput = mul(vinput, Pow(2, vT))
    /\ varg_output = mul(voutput, 2)
    /\ varg_output # voutput
    /\ varg_proof = vproof
    /\ vresult = "InvalidProof"

\* Reached: a changed proof that verify accepts although every doubling of
\* the evaluation was right (the challenge divides the order of the group).
AcceptedChangedProof ==
    /\ vpc = "verified"
    /\ voutput = mul(vinput, Pow(2, vT))
    /\ varg_output = voutput
    /\ varg_proof # vproof
    /\ SameGroupAsInput(varg_proof)
    /\ vresult = "Ok"

\* Reached: a changed output that verify accepts with the proof of a correct
\* evaluation whose own output and proof verify.
AcceptedChangedOutput ==
    /\ vpc = "verified"
    /\ voutput = mul(vinput, Pow(2, vT))
    /\ verify(vT, vD, vinput, voutput, vproof) = "Ok"
    /\ varg_output # voutput
    /\ is_reduced(varg_output)
    /\ varg_proof = vproof
    /\ SameGroupAsInput(varg_output)
    /\ vresult = "Ok"

----------------------------------------------------------------------------
(* Properties of the compressed encoding.                                   *)

\* C8: for every reduced form f of a discriminant (the identity, the
\* generator, forms with a = b, and forms with negative b and gcd(a, t') > 1
\* included) decompress(compress(f)) returns Ok(f).
C8_CompressionRoundTrip ==
    (cform0 # NoForm /\ cops = <<"compress", "decompress">>) =>
        (cstatus = "Ok" /\ cform = cform0)

\* C9: for every payload that deserialize accepts and whose compressed form
\* decompresses, compressing the decompressed form gives the compressed form
\* deserialize returned, and serializing it gives the original bytes.
C9_ByteExactReencoding ==
    /\ (Len(cops) = 3 /\ cops = <<"deserialize", "decompress", "compress">>)
            => ccompressed = cdeserialized
    /\ (Len(cops) = 4 /\ cops = <<"deserialize", "decompress", "compress",
                                  "serialize">>)
            => (cstatus = "Ok" /\ cbytes = cbytes0)

\* The bytes of a field of the payload hold the magnitude of the number, in
\* the given count of bytes.
FieldHolds(bytes, offset, length, number) ==
    /\ length >= 0
    /\ offset + length <= Len(bytes)
    /\ \/ bigint_import(byte_range(bytes, offset, length)) = Abs(number)
       \/ from_bytes(byte_range(bytes, offset, length)) = Abs(number)

\* The layout of the payload of a Nontrivial compressed form.
NontrivialLayout(bytes, form) ==
    LET d_bits == d_bits_of(form.discriminant)
        g_size == (bit_length(form.g) + 7) \div 8 - 1
        a_length == d_bits \div 16 - g_size
        t_length == d_bits \div 32 - g_size
        used == 3 * (d_bits \div 32) + 4
    IN /\ bytes[1] = (IF form.b_sign THEN 1 ELSE 0)
                     + (IF form.t_prime < 0 THEN 2 ELSE 0)
       /\ bytes[2] = g_size
       /\ FieldHolds(bytes, 2, a_length, form.a_prime)
       /\ FieldHolds(bytes, 2 + a_length, t_length, form.t_prime)
       /\ FieldHolds(bytes, 2 + a_length + t_length, g_size + 1, form.g)
       /\ FieldHolds(bytes, 2 + a_length + t_length + g_size + 1,
                     g_size + 1, form.b0)
       /\ 2 + a_length + t_length + 2 * (g_size + 1) = used
       /\ \A i \in (used + 1)..COMPRESSED_SIZE : bytes[i] = 0

\* C19: for every reduced form, serialize of its compressed form returns Ok
\* with exactly COMPRESSED_SIZE bytes: 0x04 and zeros for the identity, 0x08
\* and zeros for the generator, and for a nontrivial form the flags, g_size,
\* and a_prime, t_prime, g and b0 in d_bits/16 - g_size, d_bits/32 - g_size,
\* g_size + 1 and g_size + 1 bytes, padded with zeros.
C19_SerializeLayout ==
    (cform0 # NoForm /\ cops = <<"compress", "serialize">>) =>
        /\ cstatus = "Ok"
        /\ Len(cbytes) = COMPRESSED_SIZE
        /\ ccompressed.tag = "Identity"
              => cbytes = <<4>> \o zeros(COMPRESSED_SIZE - 1)
        /\ ccompressed.tag = "Generator"
              => cbytes = <<8>> \o zeros(COMPRESSED_SIZE - 1)
        /\ ccompressed.tag = "Nontrivial"
              => NontrivialLayout(cbytes, ccompressed)

\* The layout holds of every reduced form with a # b.
SerializeLayoutUnlessEqualAB ==
    (cform0 # NoForm /\ cform0.a # cform0.b
     /\ cops = <<"compress", "serialize">>) =>
        /\ cstatus = "Ok"
        /\ Len(cbytes) = COMPRESSED_SIZE
        /\ ccompressed.tag = "Identity"
              => cbytes = <<4>> \o zeros(COMPRESSED_SIZE - 1)
        /\ ccompressed.tag = "Generator"
              => cbytes = <<8>> \o zeros(COMPRESSED_SIZE - 1)
        /\ ccompressed.tag = "Nontrivial"
              => NontrivialLayout(cbytes, ccompressed)

\* The form after n successive doublings of f.
RECURSIVE Doublings(_, _, _)
Doublings(f, n, limit) ==
    IF n = 0 THEN f ELSE double(Doublings(f, n - 1, limit), limit)

\* C12: evaluate returns, and its output is the input doubled `iterations`
\* times, which is 2^iterations * input; with no iterations it returns the
\* input and the zero of the group and computes no challenge.
C12_EvaluateOutput ==
    /\ vpc # "panic"
    /\ vpc \in {"returned", "verified"} =>
          /\ voutput = Doublings(vinput, vT, partial_gcd_limit(vD))
          /\ voutput = mul(vinput, Pow(2, vT))
          /\ vT = 0 => /\ voutput = vinput
                       /\ vproof = zero(vD)
                       /\ vchallenge = 0

\* C13: for the same VDF and input, FastVerifier::verify returns for every
\* output and proof what WesolowskisVDF::verify returns.
C13_FastVerifierEquivalence ==
    (vpc = "verified" /\ vfast_result # "none") => vfast_result = vresult

\* Both verifiers were called with a proof of the group that is not the one
\* evaluate returned, and both rejected it with InvalidProof.
C13_Witness ==
    /\ vpc = "verified"
    /\ vT = 3
    /\ varg_output = voutput
    /\ varg_proof # vproof
    /\ SameGroupAsInput(varg_proof)
    /\ vresult = "InvalidProof"
    /\ vfast_result = "InvalidProof"

\* C14: verify and FastVerifier::verify return Err(InvalidInput) whenever
\* the output or the proof is not in the group of the input, and they do so
\* before the challenge and the group equation are evaluated.
C14_InvalidInputFirst ==
    (vpc = "verified" /\ ~(SameGroupAsInput(varg_output)
                           /\ SameGroupAsInput(varg_proof))) =>
        /\ vresult = "InvalidInput"
        /\ vfast_result \in {"none", "InvalidInput"}

\* Both verifiers returned InvalidInput for a proof of another group, for
\* which the sum of the group equation cannot be composed.
C14_Witness ==
    /\ vpc = "verified"
    /\ SameGroupAsInput(varg_output)
    /\ ~SameGroupAsInput(varg_proof)
    /\ LET challenge == compute_challenge(vT, vD, vinput, varg_output)
       IN add(mul(varg_proof, challenge),
              mul(vinput, modpow(2, vT, challenge))) = NoForm
    /\ vresult = "InvalidInput"
    /\ vfast_result = "InvalidInput"

\* C15: every (input, output, proof) that verify does not accept is
\* reported as Err(InvalidProof).
C15_UniformInvalidProof ==
    (vpc = "verified" /\ vresult # "Ok") => vresult = "InvalidProof"

\* The layout len(input) || input || len(output) || output || iterations ||
\* group_parameter of a seed, the lengths and iterations as 8 bytes with the
\* highest first.
SeedLayout(seed, parameters) ==
    LET n == Len(parameters.input_bytes)
        k == Len(parameters.output_bytes)
        value(bytes) ==
            bytes[8] + 256 * bytes[7] + 65536 * bytes[6]
        high_zero(bytes) == \A i \in 1..5 : bytes[i] = 0
    IN /\ Len(seed) = 24 + n + k + Len(parameters.group_parameter_bytes)
       /\ value(SubSeq(seed, 1, 8)) = n
       /\ high_zero(SubSeq(seed, 1, 8))
       /\ SubSeq(seed, 9, 8 + n) = parameters.input_bytes
       /\ value(SubSeq(seed, 9 + n, 16 + n)) = k
       /\ high_zero(SubSeq(seed, 9 + n, 16 + n))
       /\ SubSeq(seed, 17 + n, 16 + n + k) = parameters.output_bytes
       /\ value(SubSeq(seed, 17 + n + k, 24 + n + k)) = parameters.iterations
       /\ high_zero(SubSeq(seed, 17 + n + k, 24 + n + k))
       /\ SubSeq(seed, 25 + n + k, Len(seed))
              = parameters.group_parameter_bytes

\* C16: the seed of compute_challenge is len(input) || input || len(output)
\* || output || iterations || group_parameter; public parameters that differ
\* in any component give different seeds, and equal public parameters give
\* evaluate and verify the same seed and the same challenge.
C16_SeedInjective ==
    /\ spc \in {"verify", "done"} => SeedLayout(sseed_evaluate, sevaluate)
    /\ spc = "done" =>
          /\ SeedLayout(sseed_verify, sverify)
          /\ sevaluate # sverify => sseed_evaluate # sseed_verify
          /\ sevaluate = sverify =>
                /\ sseed_evaluate = sseed_verify
                /\ schallenge_evaluate = schallenge_verify

\* Two calls whose inputs and outputs differ but have the same bytes when
\* put one after the other, and so differ in the seed by the lengths alone.
C16_Witness ==
    /\ spc = "done"
    /\ sevaluate # sverify
    /\ sevaluate.input_bytes \o sevaluate.output_bytes
           = sverify.input_bytes \o sverify.output_bytes
    /\ sevaluate.iterations = sverify.iterations
    /\ sevaluate.group_parameter_bytes = sverify.group_parameter_bytes
    /\ sseed_evaluate # sseed_verify

----------------------------------------------------------------------------
(* Properties of the discriminants.                                         *)

\* C11: try_from(v) returns Ok exactly when v < 0, v = 1 mod 4 and v has at
\* most MAX_DISCRIMINANT_SIZE_IN_BITS bits; Err(InvalidInput) when v >= 0 or
\* v # 1 mod 4, whatever the size; Err(InputTooLong) when only the size is
\* wrong; so every Discriminant built is negative, 1 mod 4 and within the
\* size.
C11_TryFrom ==
    LET limit == Pow(2, MAX_DISCRIMINANT_SIZE_IN_BITS)
        residue_ok(v) == (v - 1) % 4 = 0
    IN /\ (dcall = "try_from" /\ dcalls > 0) =>
            /\ dresult.status = "Ok" <=>
                   (dvalue < 0 /\ residue_ok(dvalue) /\ -dvalue < limit)
            /\ (dvalue >= 0 \/ ~residue_ok(dvalue)) =>
                   dresult.status = "InvalidInput"
            /\ (dvalue < 0 /\ residue_ok(dvalue) /\ -dvalue >= limit) =>
                   dresult.status = "InputTooLong"
            /\ dresult.status = "Ok" => dresult.value = dvalue
       /\ dresult.status = "Ok" =>
            /\ dresult.value < 0
            /\ residue_ok(dresult.value)
            /\ -dresult.value < limit

\* try_from refused a negative value that is 1 mod 4 and one bit too long.
C11_Witness ==
    /\ dcall = "try_from"
    /\ dcalls > 0
    /\ dvalue < 0
    /\ Modulus(dvalue, 4) = 1
    /\ bit_length(dvalue) = MAX_DISCRIMINANT_SIZE_IN_BITS + 1
    /\ dresult.status = "InputTooLong"

PrimeSearchExhausted ==
    /\ dcall = "from_seed"
    /\ dsize_in_bits \in 8..MAX_DISCRIMINANT_SIZE_IN_BITS
    /\ dresult.status = "panic_prime_search"

----------------------------------------------------------------------------
(* Properties of deserialize.                                               *)

\* C20 as stated: every payload whose g_size byte is at least d_bits/32 is
\* rejected with InvalidInput, every payload whose length is not
\* COMPRESSED_SIZE with InputLengthWrong, and for a discriminant of at most
\* 1024 bits no range taken ends after the payload.
C20_DeserializeRejects ==
    llayout # NoLayout =>
        /\ (Len(lbytes) >= 2
            /\ lbytes[2] >= round_up_to_32(lbit_length) \div 32)
               => llayout.status = "InvalidInput"
        /\ Len(lbytes) # COMPRESSED_SIZE
               => llayout.status = "InputLengthWrong"
        /\ lbit_length <= 1024
               => /\ llayout.status # "panic_slice_index"
                  /\ llayout.read_end <= COMPRESSED_SIZE

\* C20 amended: every payload whose length is not COMPRESSED_SIZE is
\* rejected with InputLengthWrong; a payload of COMPRESSED_SIZE bytes with
\* the identity or the generator bit set is accepted whatever its g_size
\* byte; every other payload of COMPRESSED_SIZE bytes whose g_size byte is
\* at least d_bits/32 is rejected with InvalidInput; and for a discriminant
\* of at most 1024 bits no range taken ends after the payload.
C20_DeserializeRejectsUntagged ==
    llayout # NoLayout =>
        /\ Len(lbytes) # COMPRESSED_SIZE
               => llayout.status = "InputLengthWrong"
        /\ (Len(lbytes) = COMPRESSED_SIZE
            /\ (bit_set(lbytes[1], 4) \/ bit_set(lbytes[1], 8)))
               => /\ llayout.status = "Ok"
                  /\ llayout.tag = IF bit_set(lbytes[1], 4) THEN "Identity"
                                   ELSE "Generator"
        /\ (Len(lbytes) = COMPRESSED_SIZE
            /\ ~bit_set(lbytes[1], 4) /\ ~bit_set(lbytes[1], 8)
            /\ lbytes[2] >= round_up_to_32(lbit_length) \div 32)
               => llayout.status = "InvalidInput"
        /\ lbit_length <= 1024
               => /\ llayout.status # "panic_slice_index"
                  /\ llayout.read_end <= COMPRESSED_SIZE

\* deserialize rejected a payload of COMPRESSED_SIZE bytes without a tag
\* whose g_size byte is d_bits/32, for a discriminant of 1024 bits.
C20_Witness ==
    /\ llayout.status = "InvalidInput"
    /\ Len(lbytes) = COMPRESSED_SIZE
    /\ lbit_length = 1024
    /\ lbytes[2] = 32

\* Reached: for a discriminant of 1024 bits and the largest g_size accepted
\* the ranges end with the payload.
RangesFillPayload ==
    /\ llayout.status = "Ok"
    /\ llayout.tag = "Nontrivial"
    /\ lbit_length = 1024
    /\ lbytes[2] = 31
    /\ llayout.read_end = COMPRESSED_SIZE

\* Reached: for a discriminant of more than 1024 bits a range ends after
\* the payload.
RangeAfterPayload ==
    /\ llayout.status = "panic_slice_index"
    /\ lbit_length > 1024
    /\ llayout.read_end > COMPRESSED_SIZE

\* Reached: a payload with the identity bit is accepted with a g_size byte
\* of 255.
TaggedPayloadAccepted ==
    /\ llayout.status = "Ok"
    /\ llayout.tag = "Identity"
    /\ Len(lbytes) = COMPRESSED_SIZE
    /\ lbytes[2] = 255

\* deserialize of the payloads of the encoding component returns the status
\* its layout gives.
DeserializeStatusIsLayoutStatus ==
    cops = <<"deserialize">> =>
        cstatus = deserialize_layout(cbytes0, bit_length(cD)).status

----------------------------------------------------------------------------
(* Properties of CombMultiplier.                                            *)

\* floor(log2(n)) and ceil(log2(n)) for n >= 1, ceil(n / d) for d >= 1, and
\* 2^e in the group's scalars.
FloorLog2(n) == CHOOSE k \in 0..n : Pow(2, k) <= n /\ n < Pow(2, k + 1)

CeilLog2(n) == CHOOSE k \in 0..n : Pow(2, k) >= n /\ (k = 0 \/ Pow(2, k - 1) < n)

CeilDiv(n, d) == CHOOSE q \in 0..n : q * d >= n /\ (q = 0 \/ (q - 1) * d < n)

RECURSIVE TwoToThe(_)
TwoToThe(e) == IF e = 0 THEN 1 ELSE (2 * TwoToThe(e - 1)) % GroupOrder

AcceptedAtBound ==
    mpc = "built" /\ WIDTH = 4 /\ SCALAR_SIZE = 2 /\ HEIGHT = 8

PanicBelowBound ==
    /\ mpc = "panic_invalid_parameters"
    /\ WIDTH = 4 /\ SCALAR_SIZE = 2 /\ HEIGHT = 7

\* Reached: new panics for WIDTH 1, whose window has no bits.
PanicWidthOne == mpc = "panic_division_by_zero" /\ WIDTH = 1

----------------------------------------------------------------------------
(* Properties of the proof construction in evaluate.                        *)

\* The quotient and remainder of 2^k by the challenge hold after the k-th
\* step, and each step divides a number below twice the challenge.
RemainderAfterSteps ==
    vpc \in {"proving", "returned"} /\ vT >= 1
        => /\ vqr[2] = FMod(Pow(2, vi), vchallenge)
           /\ vqr[1] = FDiv(2 * FMod(Pow(2, vi - 1), vchallenge), vchallenge)
           /\ vi \in 1..vT
           /\ vpc = "returned" => vi = vT

\* C23: with at least one iteration and the challenge c, after the k-th step
\* of the proof construction (the first step is the division of 2 by c) the
\* proof is floor(2^k / c) * input and the remainder is 2^k mod c; the proof
\* returned is floor(2^T / c) * input, after exactly T - 1 rounds of the loop.
C23_ProofAfterSteps ==
    /\ RemainderAfterSteps
    /\ vpc \in {"proving", "returned"} /\ vT >= 1
          => vproof = mul(vinput, FDiv(Pow(2, vi), vchallenge))
    /\ vpc = "panic" => vchallenge = 0

\* The same wherever no doubling of the proof was needed, or the doubled
\* proof was the identity.
ProofStepsUnlessDoubled ==
    /\ RemainderAfterSteps
    /\ vpc \in {"proving", "returned"} /\ vT >= 1
          /\ FDiv(Pow(2, vi), vchallenge) <= 1
          => vproof = mul(vinput, FDiv(Pow(2, vi), vchallenge))

----------------------------------------------------------------------------
(* Properties of the steps of double.                                       *)

\* The values of the double() call that returned the current form.
DoubleRan == fop = "double" /\ fprev # NoForm /\ fprev.a # 0

\* With gcd(a, b) = 1 step 1 leaves a and b as they are, and the form is
\* built without a multiplication by g.
ScalingWhenCoprime ==
    DoubleRan =>
        LET d == double_values(fprev, partial_gcd_limit(fD))
        IN d.g = 1 => /\ d.capital_by = fprev.a
                      /\ d.capital_dy = fprev.b

\* C24: in double, with g = gcd(a, b), capital_by and capital_dy are a / g
\* and b / g when g # 1 and a and b themselves when g = 1.
C24_DoubleScaling ==
    DoubleRan =>
        LET d == double_values(fprev, partial_gcd_limit(fD))
        IN /\ d.g # 1 => /\ d.capital_by * d.g = fprev.a
                         /\ d.capital_dy * d.g = fprev.b
           /\ d.g = 1 => /\ d.capital_by = fprev.a
                         /\ d.capital_dy = fprev.b

\* A double() of a form with gcd(a, b) > 1 has run.
DoubledWithCommonFactor ==
    /\ DoubleRan
    /\ double_values(fprev, partial_gcd_limit(fD)).g > 1
    /\ form_discriminant(fprev) = fD

\* The call of double has left the loop of step 3 and finished.
DoubleFinished == npc \in {"returned", "panic"}

\* The condition of the loop is false, or the call is past the loop.
LoopLeft ==
    \/ npc # "loop"
    \/ ~partial_xgcd_continues(nbx, nby, partial_gcd_limit(nD))

\* The loop left by |by| <= partial_gcd_limit or bx = 0, z the number of
\* rounds run, by and y negated exactly when z is odd, and step 4 taken
\* exactly when no round ran.
LoopExit ==
    DoubleFinished =>
        /\ Abs(nloop_by) <= partial_gcd_limit(nD) \/ nbx = 0
        /\ nz = nrounds
        /\ IF nrounds % 2 = 1
           THEN nby = -nloop_by /\ ny = -nloop_y
           ELSE nby = nloop_by /\ ny = nloop_y
        /\ nbranch = "step4" <=> nrounds = 0
        /\ nbranch = "step5" <=> nrounds > 0

\* The locals at the end are those of double computed in one piece.
StepsAgree ==
    DoubleFinished =>
        LET d == double_values(nform, partial_gcd_limit(nD))
        IN /\ d.z = nz /\ d.bx = nbx /\ d.by = nby /\ d.x = nx /\ d.y = ny
           /\ d.loop_by = nloop_by

\* Each round of the loop makes |bx| smaller.
RemainderDecreases ==
    [][npc = "loop" /\ npc' = "loop" => Abs(nbx') < Abs(nbx)]_vars

\* C25: the loop of step 3 of double terminates for every form with a > 0;
\* when it is left |by| <= partial_gcd_limit or bx = 0, z is the number of
\* rounds run, by and y have changed sign exactly when z is odd, and the
\* formula for z = 0 is used exactly when no round ran.
C25_PartialXgcdLoop ==
    /\ []LoopExit
    /\ npc = "loop" ~> LoopLeft

\* A call left the loop after three rounds and negated by and y.
C25_Witness ==
    /\ DoubleFinished
    /\ nrounds = 3 /\ nz = 3 /\ nbranch = "step5"
    /\ nloop_by # 0 /\ nby = -nloop_by
    /\ nloop_y # 0 /\ ny = -nloop_y

\* A call left the loop by bx = 0 with by above the limit.
LeftAtZero ==
    DoubleFinished /\ nbx = 0 /\ Abs(nloop_by) > partial_gcd_limit(nD)

\* A call left no round of the loop and took step 4.
NoRoundRan == DoubleFinished /\ nrounds = 0 /\ nbranch = "step4"

\* A call left the loop with |by| at most the limit and bx # 0.
LeftBelowLimit ==
    DoubleFinished /\ nrounds > 0 /\ nbx # 0
        /\ Abs(nloop_by) <= partial_gcd_limit(nD)

----------------------------------------------------------------------------
(* Properties of the main loop of extended_euclidean_algorithm.             *)

\* r.0 == s.0 * b + t.0 * a and r.1 == s.1 * b + t.1 * a, for the operands
\* a and b of the call that runs the loop.
CofactorInvariant ==
    xpc \in {"loop", "done"} =>
        /\ xr[1] = xs[1] * inner_b + xt[1] * inner_a
        /\ xr[2] = xs[2] * inner_b + xt[2] * inner_a

\* Each iteration makes |r.0| smaller.
XgcdRemainderDecreases ==
    [][xpc = "loop" /\ xpc' = "loop" => Abs(xr'[1]) < Abs(xr[1])]_vars

\* C26: the main loop of extended_euclidean_algorithm terminates for all
\* signed inputs (the remainder gets smaller in absolute value until it is
\* zero, an operand that is zero included), and the cofactors satisfy
\* r.0 == s.0 * b + t.0 * a and r.1 == s.1 * b + t.1 * a at every iteration.
C26_XgcdLoop ==
    /\ []CofactorInvariant
    /\ XgcdRemainderDecreases
    /\ xpc = "loop" ~> (xpc # "loop" \/ xr[1] = 0)

\* The loop ran on a negative and a zero operand and came to r.0 = 0 with
\* cofactors that are not the initial ones.
C26_Witness ==
    /\ xpc = "loop" /\ xr[1] = 0
    /\ inner_a = -4 /\ inner_b = 0
    /\ xs # <<0, 1>>
    /\ xr[2] = -4

\* The loop ran three iterations or more on operands of both signs.
LongLoop ==
    /\ xpc = "loop" /\ xr[1] = 0
    /\ inner_a < 0 /\ inner_b > 0
    /\ Abs(xs[1]) > 1 /\ Abs(xt[1]) > 2

----------------------------------------------------------------------------
(* Properties of the discriminant under the group operations.               *)

\* f1 + f2 of two forms of the discriminant is a form of the discriminant.
AddPreservesDiscriminant ==
    (fop = "add" /\ form_discriminant(fprev) = fD
        /\ form_discriminant(fother) = fD)
        => fform # NoForm /\ form_discriminant(fform) = fD

\* double(f) of a form of the discriminant is a form of the discriminant.
DoublePreservesDiscriminant ==
    (fop = "double" /\ fprev # NoForm /\ form_discriminant(fprev) = fD)
        => fform # NoForm /\ form_discriminant(fform) = fD

\* The divisions of steps 4 and 5 of double leave no remainder.
DoubleDivisionsExact ==
    (fop = "double" /\ fprev # NoForm /\ form_discriminant(fprev) = fD) =>
        LET d == double_values(fprev, partial_gcd_limit(fD))
            dx == TDiv(d.bx * d.capital_dy - fprev.c * d.x, d.capital_by)
        IN IF d.z = 0
           THEN Divides(d.capital_by, d.bx * d.capital_dy - fprev.c)
           ELSE /\ Divides(d.capital_by,
                           d.bx * d.capital_dy - fprev.c * d.x)
                /\ Divides(d.x, dx * d.y + d.capital_dy)

\* C27: the group operations preserve the discriminant: double(f) is a form
\* of the discriminant D of f (gcd(a, b) > 1 included), f1 + f2 is a form of
\* D, and every division inside double is exact.
C27_DiscriminantPreserved ==
    /\ AddPreservesDiscriminant
    /\ DoublePreservesDiscriminant
    /\ DoubleDivisionsExact

----------------------------------------------------------------------------
(* Properties of from_a_b_discriminant.                                     *)

\* The constructor was called with a and b for which 4a divides b^2 - D.
ConstructedExactly ==
    /\ fop = "from_a_b_discriminant"
    /\ fform # NoForm
    /\ Divides(4 * fform.a, fform.b * fform.b - fD)

\* Where 4a divides b^2 - D the form built has the discriminant D.
DiscriminantKeptWhenDivisible ==
    ConstructedExactly =>
        /\ form_discriminant(fform) = fD
        /\ quadratic_form_discriminant(fform) = DiscriminantResult("Ok", fD)

\* C28: for from_a_b_discriminant(a, b, D) with any a # 0 and b the stored c
\* satisfies b^2 - 4ac = D, so discriminant() returns D and does not panic.
C28_ConstructorKeepsDiscriminant ==
    (fop = "from_a_b_discriminant" /\ fform # NoForm) =>
        /\ form_discriminant(fform) = fD
        /\ quadratic_form_discriminant(fform) = DiscriminantResult("Ok", fD)

\* The constructor built a form on which discriminant() panics.
DiscriminantPanics ==
    /\ fop = "from_a_b_discriminant"
    /\ fD = -47 /\ fform = Form(1, -4, 15)
    /\ quadratic_form_discriminant(fform).status = "panic"

\* The constructor built a form on which discriminant() returns another
\* discriminant.
DiscriminantChanged ==
    /\ fop = "from_a_b_discriminant"
    /\ fD = -47 /\ fform = Form(4, 3, 3)
    /\ quadratic_form_discriminant(fform) = DiscriminantResult("Ok", -39)

----------------------------------------------------------------------------
(* Properties of QuadraticForm::deserialize on payloads of any content.     *)

\* QuadraticForm::deserialize has run on a payload: deserialize, and
\* decompress on what it returned.
Decoded ==
    /\ cbytes0 # <<>>
    /\ \/ cops = <<"deserialize">> /\ cstatus # "Ok"
       \/ cops = <<"deserialize", "decompress">>

\* The results a FastCryptoResult can carry.
TypedResults == {"Ok", "InvalidInput", "InputLengthWrong", "InputTooLong"}

\* C29: for every payload of COMPRESSED_SIZE bytes QuadraticForm::deserialize
\* returns Ok(form) or a typed Err and does not panic: not on the assertion
\* of the perfect square, not on a division by zero, not on a missing
\* modular inverse.
C29_DecodeNeverPanics == Decoded => cstatus \in TypedResults

\* A missing modular inverse gives Err(InvalidInput), and a_prime = 0 with
\* t_prime # 0 as well.
DecodeChecksInverse ==
    (Decoded /\ cops = <<"deserialize", "decompress">>
        /\ cdeserialized.tag = "Nontrivial" /\ cdeserialized.t_prime # 0
        /\ (cdeserialized.a_prime = 0
            \/ GcdRef(Abs(cdeserialized.t_prime), cdeserialized.a_prime) # 1))
        => cstatus = "InvalidInput"

\* The assertion of the perfect square failed on a decoded payload.
DecodePanicsOnAssertion == Decoded /\ cstatus = "panic_assert_eq"

\* from_a_b_discriminant divided by zero on a decoded payload with
\* t_prime = 0 and a_prime = 0.
DecodeDividesByZero ==
    /\ Decoded /\ cstatus \notin TypedResults /\ cstatus # "panic_assert_eq"
    /\ cdeserialized.t_prime = 0 /\ cdeserialized.a_prime = 0

\* from_a_b_discriminant divided by zero on a decoded payload with g = 0.
DecodeDividesByZeroG ==
    /\ Decoded /\ cstatus \notin TypedResults /\ cstatus # "panic_assert_eq"
    /\ cdeserialized.t_prime # 0 /\ cdeserialized.a_prime # 0
    /\ cdeserialized.g = 0

----------------------------------------------------------------------------
(* Properties of the groups of the forms verify accepts.                    *)

InOwnGroup(f) == f # NoForm /\ form_discriminant(f) = vD

\* evaluate returned, and verify was called with what it returned.
VerifiedEvaluateResult ==
    vpc = "verified" /\ varg_output = voutput /\ varg_proof = vproof

\* C30: whenever verify returns Ok the input, the output and the proof are
\* in the group of the group_parameter of the VDF; the output and proof that
\* evaluate returns are in the group of the input, so that verify does not
\* return Err(InvalidInput) on what evaluate returned.
C30_VerifiedInOwnGroup ==
    /\ (vpc = "verified" /\ vresult = "Ok") =>
            /\ InOwnGroup(vinput)
            /\ InOwnGroup(varg_output)
            /\ InOwnGroup(varg_proof)
    /\ vpc \in {"returned", "verified"} =>
            /\ same_group(vinput, voutput)
            /\ same_group(vinput, vproof)
    /\ VerifiedEvaluateResult => vresult # "InvalidInput"

\* Whenever verify returns Ok the output and the proof are in the group of
\* the input.
VerifiedInGroupOfInput ==
    (vpc = "verified" /\ vresult = "Ok") =>
        /\ same_group(vinput, varg_output)
        /\ same_group(vinput, varg_proof)

\* verify returned Ok for an input, an output and a proof of another group
\* than that of the group_parameter.
VerifiedOutsideOwnGroup ==
    /\ VerifiedEvaluateResult /\ vresult = "Ok" /\ vT >= 1
    /\ ~InOwnGroup(vinput) /\ ~InOwnGroup(varg_output)
    /\ ~InOwnGroup(varg_proof)

\* evaluate returned, for an input of the group, an output that is not in
\* it, and verify returned InvalidInput.
EvaluateLeftGroup ==
    /\ VerifiedEvaluateResult /\ vresult = "InvalidInput"
    /\ InOwnGroup(vinput) /\ ~InOwnGroup(voutput)

\* evaluate returned, for no iterations and an input of another group, the
\* identity of the group_parameter as the proof, and verify returned
\* InvalidInput.
ProofOfOwnGroupForForeignInput ==
    /\ VerifiedEvaluateResult /\ vresult = "InvalidInput"
    /\ vT = 0 /\ ~InOwnGroup(vinput) /\ InOwnGroup(vproof)

=============================================================================
